---------------------------- MODULE Spec2Model ----------------------------
(***************************************************************************)
(* Model of the widget file manager controller                             *)
(* (controllers/widget-file-manager.controller.ts): writeFile, viewFile,   *)
(* deleteFile and replaceLines over a remote document store.               *)
(*                                                                         *)
(* A text is a sequence of one-character strings, so that split('\n'),     *)
(* join('\n') and the regular expression built from the search text are    *)
(* computed character by character, as the code computes them.             *)
(***************************************************************************)
EXTENDS Integers, Sequences, FiniteSets, TLC

VARIABLES
    store,  \* remote documents of type 'code': widgetId -> sequence of [filePath, content]
    last,   \* request and response of the operation that completed last
    call,   \* per caller: the replaceLines call suspended between its fetch and its write
    pat,    \* the pattern check applied to one (search, targetContent) pair
    changedFiles \* the paths registered with the CodeChecker since it was cleared

vars == <<store, last, call, pat, changedFiles>>

---------------------------------------------------------------------------
(* Bounds of the model *)

MaxLen == 3          \* longest file content drawn as an input
MaxReplaceLen == 1   \* longest replace text drawn as an input
MaxSearchLen == 1    \* longest search text drawn for a replaceLines call
MaxPatLen == 4       \* longest search text drawn for the pattern check alone
MaxTargetLen == 2    \* longest range text drawn for the pattern check alone
MaxLine == 3         \* firstReplacedLine, lastReplacedLine are drawn from 0..MaxLine
MaxContentLen == 3   \* longest content a replaceLines call may produce
MaxRangeLen == 5     \* longest lines argument drawn for parseLineRanges alone
MaxRangeEnd == 4     \* range bounds drawn for extractLines alone are 0..MaxRangeEnd
MaxRanges == 2       \* longest list of ranges drawn for extractLines alone
MaxCssLen == 3       \* longest file content handed to the CodeChecker

Widgets == {"w1", "w2"}
Paths == {"/a", "/b"}
Callers == {"c1", "c2"}

NL == "\n"
Chars == {"a", "b", NL}                      \* characters of file contents
SearchChars == {"a", ".", "*", "(", ")", NL} \* characters of search texts
TargetChars == {"a", ".", "(", NL}           \* characters of the ranges the pattern check is tried on

\* All texts over alphabet A of length at most n.
RECURSIVE TextsOver(_, _)
TextsOver(A, n) ==
    IF n = 0 THEN {<<>>}
    ELSE LET P == TextsOver(A, n - 1)
         IN  P \cup {Append(s, c) : s \in {t \in P : Len(t) = n - 1}, c \in A}

---------------------------------------------------------------------------
(* String primitives of the JavaScript runtime *)

Min(a, b) == IF a < b THEN a ELSE b
Max(a, b) == IF a > b THEN a ELSE b

\* Array.prototype.slice(begin, end) for 0 <= begin: elements begin..end-1 (0-based).
Slice(s, begin, end) ==
    SubSeq(s, begin + 1, Min(end, Len(s)))

\* Array.prototype.slice(begin): the elements from index begin (0-based) on.
SliceFrom(s, begin) ==
    SubSeq(s, begin + 1, Len(s))

\* String.prototype.split('\n'): the pieces between newlines; '' gives [''].
\* The pieces of a text are those of its two halves, the last piece of the first
\* half and the first piece of the second being one piece.
SplitJoin(left, right) ==
    SubSeq(left, 1, Len(left) - 1) \o <<left[Len(left)] \o right[1]>> \o Tail(right)

RECURSIVE SplitFrom(_, _, _)
SplitFrom(s, lo, hi) ==
    IF lo > hi THEN <<(<<>>)>>
    ELSE IF lo = hi THEN (IF s[lo] = NL THEN <<(<<>>), (<<>>)>> ELSE <<(<<s[lo]>>)>>)
    ELSE SplitJoin(SplitFrom(s, lo, (lo + hi) \div 2),
                   SplitFrom(s, (lo + hi) \div 2 + 1, hi))

Split(s) == SplitFrom(s, 1, Len(s))

\* Array.prototype.join('\n'); [] gives ''. The elements lo..hi, by halves.
RECURSIVE JoinFrom(_, _, _)
JoinFrom(ls, lo, hi) ==
    IF lo > hi THEN <<>>
    ELSE IF lo = hi THEN ls[lo]
    ELSE JoinFrom(ls, lo, (lo + hi) \div 2) \o <<NL>>
             \o JoinFrom(ls, (lo + hi) \div 2 + 1, hi)

Join(ls) == JoinFrom(ls, 1, Len(ls))

---------------------------------------------------------------------------
(* The regular expression replaceLines builds from the search text         *)

\* args.search.replace(/\.\.\./g, '.*?'): every run of three dots, scanned left
\* to right without overlap, becomes the three characters . * ?
RECURSIVE EllipsisFrom(_, _)
EllipsisFrom(s, i) ==
    IF i > Len(s) THEN <<>>
    ELSE IF i + 2 <= Len(s) /\ s[i] = "." /\ s[i + 1] = "." /\ s[i + 2] = "."
         THEN <<".", "*", "?">> \o EllipsisFrom(s, i + 3)
    ELSE <<s[i]>> \o EllipsisFrom(s, i + 1)

searchPattern(search) == EllipsisFrom(search, 1)

\* new RegExp(pattern, 's'): the pattern's terms, or a SyntaxError.  A term is an
\* atom (a character, the dot, a parenthesised group) with an optional quantifier
\* (* or ?, each optionally followed by the lazy mark ?).  A quantifier with no
\* atom before it, an unclosed group and an unmatched ')' are SyntaxErrors.
SyntaxError == [err |-> TRUE, nodes |-> <<>>, next |-> 0]

RECURSIVE ParseTerms(_, _)
ParseTerms(p, i) ==
    IF i > Len(p) \/ p[i] = ")" THEN [err |-> FALSE, nodes |-> <<>>, next |-> i]
    ELSE IF p[i] \in {"*", "?"} THEN SyntaxError
    ELSE
      LET inner == ParseTerms(p, i + 1)
          atom ==
            IF p[i] = "("
            THEN IF inner.err \/ inner.next > Len(p) THEN SyntaxError
                 ELSE [err |-> FALSE,
                       nodes |-> <<[t |-> "grp", c |-> "", body |-> inner.nodes]>>,
                       next |-> inner.next + 1]
            ELSE IF p[i] = "."
            THEN [err |-> FALSE, nodes |-> <<[t |-> "any", c |-> "", body |-> <<>>]>>,
                  next |-> i + 1]
            ELSE [err |-> FALSE, nodes |-> <<[t |-> "chr", c |-> p[i], body |-> <<>>]>>,
                  next |-> i + 1]
      IN
      IF atom.err THEN SyntaxError
      ELSE
        LET j == atom.next
            quant == IF j <= Len(p) /\ p[j] = "*" THEN "star"
                     ELSE IF j <= Len(p) /\ p[j] = "?" THEN "opt"
                     ELSE "one"
            k == IF quant = "one" THEN j
                 ELSE IF j + 1 <= Len(p) /\ p[j + 1] = "?" THEN j + 2
                 ELSE j + 1
            rest == ParseTerms(p, k)
        IN
        IF rest.err THEN SyntaxError
        ELSE [err |-> FALSE,
              nodes |-> <<[atom |-> atom.nodes[1], q |-> quant]>> \o rest.nodes,
              next |-> rest.next]

\* The parsed pattern; err when the RegExp constructor throws.
RegExpOf(p) ==
    LET r == ParseTerms(p, 1)
    IN  IF r.err \/ r.next <= Len(p) THEN SyntaxError ELSE r

\* The offsets (0..Len(text)) at which a match of the terms can end when it starts
\* at one of the offsets S.  With the 's' flag the dot matches every character,
\* the newline included.
RECURSIVE EndsSeq(_, _, _), EndsTerm(_, _, _), EndsAtom(_, _, _), EndsStar(_, _, _)
EndsAtom(a, text, S) ==
    IF a.t = "chr" THEN {i + 1 : i \in {j \in S : j < Len(text) /\ text[j + 1] = a.c}}
    ELSE IF a.t = "any" THEN {i + 1 : i \in {j \in S : j < Len(text)}}
    ELSE EndsSeq(a.body, text, S)

EndsStar(a, text, S) ==
    LET T == S \cup EndsAtom(a, text, S)
    IN  IF T = S THEN S ELSE EndsStar(a, text, T)

EndsTerm(term, text, S) ==
    IF term.q = "one" THEN EndsAtom(term.atom, text, S)
    ELSE IF term.q = "opt" THEN S \cup EndsAtom(term.atom, text, S)
    ELSE EndsStar(term.atom, text, S)

EndsSeq(terms, text, S) ==
    IF Len(terms) = 0 \/ S = {} THEN S
    ELSE EndsSeq(Tail(terms), text, EndsTerm(terms[1], text, S))

\* The test as it would be if the pattern had to match from the start of the
\* text.
RegExpTestFromStart(re, text) ==
    EndsSeq(re.nodes, text, {0}) # {}

\* searchRegex.test(targetContent) for a pattern that parsed: an unanchored
\* search, so a match may start at any offset.
RegExpTest(re, text) ==
    EndsSeq(re.nodes, text, 0 .. Len(text)) # {}

---------------------------------------------------------------------------
(* The regular expression searchInMongoDB runs over each line: new          *)
(* RegExp(query, 'gi') and the loop over exec.  The queries modelled hold   *)
(* no lazy quantifier.                                                      *)

\* The 'i' flag: characters are compared with their case folded.  Without the
\* 's' flag the dot matches every character but the newline.
Fold(ch) == IF ch = "A" THEN "a" ELSE ch

\* The term that matches atom a exactly once.
Once(a) == [atom |-> a, q |-> "one"]

\* The term that fails when the match has not moved past offset pos: an
\* iteration of a quantified group that matched the empty string is rejected.
Moved(pos) == Once([t |-> "chk", c |-> pos, body |-> <<>>])

\* The backtracking matcher: the offset at which the first match of the terms
\* that starts at offset pos ends, the alternatives tried in the order of the
\* ECMAScript matcher (a greedy quantifier takes its atom first); -1 when no
\* match starts at pos.
RECURSIVE MatchAt(_, _, _)
FirstOf(r, terms, text, pos) == IF r # -1 THEN r ELSE MatchAt(terms, text, pos)

MatchAt(terms, text, pos) ==
    IF Len(terms) = 0 THEN pos
    ELSE IF terms[1].q = "opt"
    THEN FirstOf(MatchAt(<<Once(terms[1].atom)>> \o Tail(terms), text, pos),
                 Tail(terms), text, pos)
    ELSE IF terms[1].q = "star"
    THEN FirstOf(MatchAt(<<Once(terms[1].atom), Moved(pos)>> \o terms, text, pos),
                 Tail(terms), text, pos)
    ELSE IF terms[1].atom.t = "grp"
    THEN MatchAt(terms[1].atom.body \o Tail(terms), text, pos)
    ELSE IF terms[1].atom.t = "chk"
    THEN IF pos = terms[1].atom.c THEN -1 ELSE MatchAt(Tail(terms), text, pos)
    ELSE IF pos < Len(text)
            /\ IF terms[1].atom.t = "any" THEN text[pos + 1] # NL
               ELSE Fold(text[pos + 1]) = Fold(terms[1].atom.c)
    THEN MatchAt(Tail(terms), text, pos + 1)
    ELSE -1

\* searchRegex.exec(line) with lastIndex = from: the leftmost match that starts
\* at from or later, as its start and end offsets; found is FALSE for null.
RECURSIVE ExecFrom(_, _, _)
ExecOr(end, re, line, from) ==
    IF end # -1 THEN [found |-> TRUE, index |-> from, end |-> end]
    ELSE ExecFrom(re, line, from + 1)

ExecFrom(re, line, from) ==
    IF from > Len(line) THEN [found |-> FALSE, index |-> 0, end |-> 0]
    ELSE ExecOr(MatchAt(re.nodes, line, from), re, line, from)

\* while ((match = searchRegex.exec(line)) !== null) from lastIndex = from: the
\* matches in the order found, and hang when the loop does not end: an empty
\* match leaves lastIndex where it was, so exec returns it again for ever.
RECURSIVE ExecLoop(_, _, _)
ExecNext(m, rest) ==
    [hang |-> rest.hang, found |-> <<m>> \o rest.found]

ExecStep(m, re, line) ==
    IF ~m.found THEN [hang |-> FALSE, found |-> <<>>]
    ELSE IF m.end = m.index THEN [hang |-> TRUE, found |-> <<>>]
    ELSE ExecNext([index |-> m.index, text |-> SubSeq(line, m.index + 1, m.end)],
                  ExecLoop(re, line, m.end))

ExecLoop(re, line, from) == ExecStep(ExecFrom(re, line, from), re, line)

---------------------------------------------------------------------------
(* The remote side: the Lambda embeddable-widget-src-update and the        *)
(* embedded_files collection the controller reads back                     *)

\* Outcomes of one Lambda invocation: served; credentials missing (nothing is
\* sent); a status other than 200; a FunctionError in the response.
LambdaOutcomes == {"ok", "nocreds", "status", "fnerror"}

\* Outcomes of one MongoDB fetch: served; EMBEDDINGS_MONGODB_URI missing; the
\* driver throws.
MongoOutcomes == {"ok", "nouri", "dberror"}

NoFiles == [p \in {} |-> <<>>]

Put(files, path, content) ==
    [p \in DOMAIN files \cup {path} |-> IF p = path THEN content ELSE files[p]]

RECURSIVE DocsOf(_)
DocsOf(files) ==
    IF DOMAIN files = {} THEN <<>>
    ELSE LET p == CHOOSE x \in DOMAIN files : TRUE
         IN  <<[filePath |-> p, content |-> files[p]]>>
                 \o DocsOf([x \in DOMAIN files \ {p} |-> files[x]])

InSeq(x, s) == \E i \in 1 .. Len(s) : s[i] = x

\* What the remote store does with a payload {widgetId, files, deletedFiles}: the
\* documents of every written or deleted path of that widget are dropped and one
\* document per written path holds its complete new content.
UpsertFiles(st, payload) ==
    LET touched(d) == d.filePath \in DOMAIN payload.files
                          \/ InSeq(d.filePath, payload.deletedFiles)
        kept == SelectSeq(st[payload.widgetId], LAMBDA d : ~touched(d))
    IN  [st EXCEPT ![payload.widgetId] = kept \o DocsOf(payload.files)]

\* invokeLambda(UPDATE_SRC_FUNCTION, payload) under outcome lam: the error it
\* throws ("" when it returns), the payloads that reached the Lambda, the store.
invokeLambda(st, payload, lam) ==
    IF lam = "nocreds"
    THEN [error |-> "AWS credentials are required", sent |-> <<>>, store |-> st]
    ELSE IF lam = "status"
    THEN [error |-> "Lambda invocation failed", sent |-> <<payload>>, store |-> st]
    ELSE IF lam = "fnerror"
    THEN [error |-> "Lambda function error", sent |-> <<payload>>, store |-> st]
    ELSE [error |-> "", sent |-> <<payload>>, store |-> UpsertFiles(st, payload)]

\* results.forEach of getWidgetFiles: documents grouped by filePath in retrieval
\* order; a path with no content so far takes the document's content, otherwise
\* the content is appended after a newline.
RECURSIVE GroupByPath(_, _)
GroupByPath(docs, files) ==
    IF Len(docs) = 0 THEN files
    ELSE LET d == Head(docs)
             fresh == d.filePath \notin DOMAIN files \/ files[d.filePath] = <<>>
         IN  GroupByPath(Tail(docs),
                 Put(files, d.filePath,
                     IF fresh THEN d.content
                     ELSE files[d.filePath] \o <<NL>> \o d.content))

\* getWidgetFiles as it would be without the widgetId filter of its query.
getWidgetFilesAnyWidget(st, widgetId, mongo) ==
    IF mongo = "nouri"
    THEN [error |-> "EMBEDDINGS_MONGODB_URI environment variable is required",
          files |-> NoFiles]
    ELSE IF mongo = "dberror"
    THEN [error |-> "MongoDB error", files |-> NoFiles]
    ELSE [error |-> "", files |-> GroupByPath(st["w1"] \o st["w2"], NoFiles)]

\* getWidgetFiles({widgetId}) under outcome mongo: the error thrown, or the files.
getWidgetFiles(st, widgetId, mongo) ==
    IF mongo = "nouri"
    THEN [error |-> "EMBEDDINGS_MONGODB_URI environment variable is required",
          files |-> NoFiles]
    ELSE IF mongo = "dberror"
    THEN [error |-> "MongoDB error", files |-> NoFiles]
    ELSE [error |-> "", files |-> GroupByPath(st[widgetId], NoFiles)]

\* The characters of a file path.
PathText(p) == IF p = "/a" THEN <<"/", "a">> ELSE <<"/", "b">>

\* The limit searchFiles passes to searchInMongoDB and the lines of context
\* searchInMongoDB keeps on each side of a match.
SearchLimit == 50
ContextWidth == 3

\* { $regex: query, $options: 'i' }: the text holds a match of the query.
RegexFound(re, text) == \E pos \in 0 .. Len(text) : MatchAt(re.nodes, text, pos) # -1

\* collection.find({widgetId, type: 'code', content | filePath: {$regex: query,
\* $options: 'i'}}).limit(limit).toArray()
FindDocs(st, widgetId, re, searchType, limit) ==
    Slice(SelectSeq(st[widgetId],
                    LAMBDA d : RegexFound(re, IF searchType = "exact" THEN d.content
                                              ELSE PathText(d.filePath))),
          0, limit)

\* The record of a match as it would be with the column counted from 0.
SearchMatchFromZero(filePath, lines, i, m) ==
    [filePath |-> filePath,
     line |-> 1 + i,
     column |-> m.index,
     matchText |-> m.text,
     beforeContext |-> Slice(lines, Max(0, i - ContextWidth), i),
     afterContext |-> Slice(lines, i + 1, Min(Len(lines), i + 1 + ContextWidth))]

\* matches.push({...}) for the match m found on lines[i] (i counted from 0); the
\* documents modelled carry no lineStart, so (doc.lineStart || 1) is 1.
SearchMatch(filePath, lines, i, m) ==
    [filePath |-> filePath,
     line |-> 1 + i,
     column |-> m.index + 1,
     matchText |-> m.text,
     beforeContext |-> Slice(lines, Max(0, i - ContextWidth), i),
     afterContext |-> Slice(lines, i + 1, Min(Len(lines), i + 1 + ContextWidth))]

\* The matches of the loop over exec on lines[i].
LineMatches(filePath, lines, i, loop) ==
    [hang |-> loop.hang,
     matches |-> [k \in 1 .. Len(loop.found) |->
                     SearchMatch(filePath, lines, i, loop.found[k])]]

\* first, then rest unless first never ends.
ThenScan(first, rest) ==
    IF first.hang THEN first
    ELSE [hang |-> rest.hang, matches |-> first.matches \o rest.matches]

\* for (let i = 0; i < lines.length; i++) from line i on.
RECURSIVE ScanLines(_, _, _, _)
ScanLines(re, filePath, lines, i) ==
    IF i >= Len(lines) THEN [hang |-> FALSE, matches |-> <<>>]
    ELSE ThenScan(LineMatches(filePath, lines, i, ExecLoop(re, lines[i + 1], 0)),
                  ScanLines(re, filePath, lines, i + 1))

\* results.forEach((doc) => ...)
RECURSIVE ScanDocs(_, _)
ScanDocs(re, docs) ==
    IF Len(docs) = 0 THEN [hang |-> FALSE, matches |-> <<>>]
    ELSE ThenScan(ScanLines(re, docs[1].filePath, Split(docs[1].content), 0),
                  ScanDocs(re, Tail(docs)))

\* What searchInMongoDB returns after the scan.
Scanned(scan) == [error |-> "", hang |-> scan.hang, matches |-> scan.matches]

\* searchInMongoDB once the query is compiled: a query that is no regular
\* expression makes find fail.
SearchCompiled(st, widgetId, re, searchType, limit) ==
    IF re.err THEN [error |-> "Invalid regular expression", hang |-> FALSE,
                    matches |-> <<>>]
    ELSE Scanned(ScanDocs(re, FindDocs(st, widgetId, re, searchType, limit)))

\* searchInMongoDB(widgetId, query, searchType, limit) under outcome mongo: the
\* error thrown ("" when it returns), whether the scan never ends, the matches.
searchInMongoDB(st, widgetId, query, searchType, limit, mongo) ==
    IF mongo = "nouri"
    THEN [error |-> "EMBEDDINGS_MONGODB_URI environment variable is required",
          hang |-> FALSE, matches |-> <<>>]
    ELSE IF mongo = "dberror"
    THEN [error |-> "MongoDB error", hang |-> FALSE, matches |-> <<>>]
    ELSE SearchCompiled(st, widgetId, RegExpOf(query), searchType, limit)

\* !widgetData.files[filePath]: the path is missing, or its content is ''.
Falsy(files, filePath) ==
    filePath \notin DOMAIN files \/ files[filePath] = <<>>

---------------------------------------------------------------------------
(* The handlers.  Each returns its result (the parsed JSON of the           *)
(* ControllerResponse), the payloads it sent to the Lambda and the store.  *)

ViewLimit == 500

\* String(n) for n >= 0: the decimal digits.
RECURSIVE Digits(_)
Digits(n) ==
    LET d == <<"0", "1", "2", "3", "4", "5", "6", "7", "8", "9">>
    IN  IF n < 10 THEN <<d[n + 1]>> ELSE Digits(n \div 10) \o <<d[(n % 10) + 1]>>

\* `${index + 1}|${line}`
Numbered(index, line) == Digits(index + 1) \o <<"|">> \o line

\* The result a handler builds from invokeLambda's outcome r: success with the
\* handler's message, or the catch block's failure carrying the error thrown.
LambdaResult(filePath, done, failed, r) ==
    [res |-> IF r.error = ""
             THEN [success |-> TRUE, message |-> done, filePath |-> filePath]
             ELSE [success |-> FALSE, message |-> failed, filePath |-> filePath,
                   error |-> r.error],
     sent |-> r.sent,
     store |-> r.store]

writeFile(st, args, lam) ==
    LambdaResult(args.filePath, "written", "Failed to write file",
                 invokeLambda(st, [widgetId |-> args.widgetId,
                                   files |-> Put(NoFiles, args.filePath, args.content),
                                   deletedFiles |-> <<>>], lam))

\* deleteFile as it would be with an empty deletion list.
deleteFileNoDeletion(st, args, lam) ==
    LambdaResult(args.filePath, "deleted", "Failed to delete file",
                 invokeLambda(st, [widgetId |-> args.widgetId, files |-> NoFiles,
                                   deletedFiles |-> <<>>], lam))

\* deleteFile as it would be with every path in the deletion list.
deleteFileAllPaths(st, args, lam) ==
    LambdaResult(args.filePath, "deleted", "Failed to delete file",
                 invokeLambda(st, [widgetId |-> args.widgetId, files |-> NoFiles,
                                   deletedFiles |-> <<"/a", "/b">>], lam))

deleteFile(st, args, lam) ==
    LambdaResult(args.filePath, "deleted", "Failed to delete file",
                 invokeLambda(st, [widgetId |-> args.widgetId, files |-> NoFiles,
                                   deletedFiles |-> <<args.filePath>>], lam))

NotFound(filePath) ==
    [success |-> FALSE, message |-> "not found", filePath |-> filePath,
     error |-> "File not found"]

\* String.prototype.split(sep) for a one-character separator.
RECURSIVE SplitByFrom(_, _, _, _)
SplitByFrom(s, sep, i, cur) ==
    IF i > Len(s) THEN <<cur>>
    ELSE IF s[i] = sep THEN <<cur>> \o SplitByFrom(s, sep, i + 1, <<>>)
    ELSE SplitByFrom(s, sep, i + 1, Append(cur, s[i]))

SplitBy(s, sep) == SplitByFrom(s, sep, 1, <<>>)

\* String.prototype.trim(): the white space at both ends removed.
RECURSIVE TrimStart(_), TrimEnd(_)
TrimStart(s) == IF Len(s) > 0 /\ s[1] = " " THEN TrimStart(Tail(s)) ELSE s
TrimEnd(s) == IF Len(s) > 0 /\ s[Len(s)] = " " THEN TrimEnd(SubSeq(s, 1, Len(s) - 1)) ELSE s
Trim(s) == TrimEnd(TrimStart(s))

DigitChars == {"0", "1", "2", "3", "4", "5", "6", "7", "8", "9"}
DigitValue(ch) == CHOOSE d \in 0 .. 9 : Digits(d) = <<ch>>

\* The value of the longest run of digits s starts with at index i, acc being
\* the value and seen the number of the digits read so far.
RECURSIVE DigitsFrom(_, _, _, _)
DigitsFrom(s, i, acc, seen) ==
    IF i <= Len(s) /\ s[i] \in DigitChars
    THEN DigitsFrom(s, i + 1, 10 * acc + DigitValue(s[i]), seen + 1)
    ELSE [nan |-> seen = 0, n |-> acc]

\* parseInt(s, 10) for a text without a sign: leading white space is skipped,
\* the digits the text then starts with are read and whatever follows them is
\* ignored; NaN when it starts with no digit.
parseInt(s) == DigitsFrom(TrimStart(s), 1, 0, 0)

\* The range pushed for a part 'a-b', if any: start and end are the first two
\* pieces of part.split('-').
DashRange(start, end) ==
    IF ~start.nan /\ ~end.nan /\ start.n <= end.n
    THEN <<[start |-> start.n, end |-> end.n]>>
    ELSE <<>>

\* The range pushed for a part without '-', if any.
BareRange(line) ==
    IF ~line.nan THEN <<[start |-> line.n, end |-> line.n]>> ELSE <<>>

\* The body of the loop over the parts.
PartRange(part) ==
    IF \E i \in 1 .. Len(part) : part[i] = "-"
    THEN DashRange(parseInt(Trim(SplitBy(part, "-")[1])),
                   parseInt(Trim(SplitBy(part, "-")[2])))
    ELSE BareRange(parseInt(part))

RECURSIVE RangesOf(_)
RangesOf(parts) ==
    IF Len(parts) = 0 THEN <<>>
    ELSE PartRange(Trim(parts[1])) \o RangesOf(Tail(parts))

parseLineRanges(lines) == RangesOf(SplitBy(lines, ","))

\* The inner loop of extractLines as it would be if it skipped the index 0 too.
RECURSIVE ExtractFromSecond(_, _, _)
ExtractFromSecond(lines, i, stop) ==
    IF i >= stop THEN <<>>
    ELSE (IF i > 0 THEN <<Numbered(i, lines[i + 1])>> ELSE <<>>)
             \o ExtractFromSecond(lines, i + 1, stop)

\* The inner loop of extractLines from index i (counted from 0) on.
RECURSIVE ExtractFrom(_, _, _)
ExtractFrom(lines, i, stop) ==
    IF i >= stop THEN <<>>
    ELSE (IF i >= 0 THEN <<Numbered(i, lines[i + 1])>> ELSE <<>>)
             \o ExtractFrom(lines, i + 1, stop)

RECURSIVE ExtractRanges(_, _)
ExtractRanges(lines, ranges) ==
    IF Len(ranges) = 0 THEN <<>>
    ELSE ExtractFrom(lines, ranges[1].start - 1, Min(ranges[1].end, Len(lines)))
             \o ExtractRanges(lines, Tail(ranges))

extractLines(content, ranges) == Join(ExtractRanges(Split(content), ranges))

\* The view of viewFile for a lines argument.
RangeView(filePath, content, totalLines, lines) ==
    [success |-> TRUE, message |-> "retrieved", filePath |-> filePath,
     content |-> extractLines(content, parseLineRanges(lines)),
     totalLines |-> totalLines,
     linesShown |-> lines]

\* The default view as it would be if it never reported a truncation.
DefaultViewWhole(filePath, allLines, linesToShow) ==
    [success |-> TRUE, message |-> "retrieved", filePath |-> filePath,
     content |-> Join([i \in 1 .. linesToShow |-> Numbered(i - 1, allLines[i])]),
     totalLines |-> Len(allLines),
     linesShown |-> <<"1", "-">> \o Digits(Len(allLines))]

\* The default view of viewFile: the first 500 lines, numbered from 1.
DefaultView(filePath, allLines, linesToShow) ==
    [success |-> TRUE, message |-> "retrieved", filePath |-> filePath,
     content |-> Join([i \in 1 .. linesToShow |-> Numbered(i - 1, allLines[i])]),
     totalLines |-> Len(allLines),
     linesShown |-> IF linesToShow = Len(allLines)
                    THEN <<"1", "-">> \o Digits(Len(allLines))
                    ELSE <<"1", "-">> \o Digits(linesToShow) \o <<" (truncated)">>]

\* viewFile once getWidgetFiles has answered widgetData.
viewFetched(args, widgetData) ==
    IF widgetData.error # ""
    THEN [success |-> FALSE, message |-> "Failed to view file",
          filePath |-> args.filePath, error |-> widgetData.error]
    ELSE IF Falsy(widgetData.files, args.filePath)
    THEN NotFound(args.filePath)
    ELSE IF "lines" \in DOMAIN args /\ args.lines # <<>>
    THEN RangeView(args.filePath, widgetData.files[args.filePath],
                   Len(Split(widgetData.files[args.filePath])), args.lines)
    ELSE DefaultView(args.filePath, Split(widgetData.files[args.filePath]),
                     Min(ViewLimit, Len(Split(widgetData.files[args.filePath]))))

viewFile(st, args, mongo) ==
    [res |-> viewFetched(args, getWidgetFiles(st, args.widgetId, mongo)),
     sent |-> <<>>,
     store |-> st]

\* args.includePattern?.includes('*')
IncludesStar(pattern) == \E i \in 1 .. Len(pattern) : pattern[i] = "*"

\* searchFiles once searchInMongoDB has answered found; hang when the scan, and
\* so the call, never ends.
searchFound(st, args, found) ==
    [res |-> IF found.error # ""
             THEN [success |-> FALSE, message |-> "Failed to search files",
                   error |-> found.error]
             ELSE [success |-> TRUE,
                   message |-> <<"Search completed", Len(found.matches)>>,
                   matches |-> found.matches, totalMatches |-> Len(found.matches),
                   searchPattern |-> args.query],
     hang |-> found.hang,
     sent |-> <<>>,
     store |-> st]

searchFiles(st, args, mongo) ==
    searchFound(st, args,
                searchInMongoDB(st, args.widgetId, args.query,
                                IF IncludesStar(args.includePattern)
                                THEN "filename" ELSE "exact",
                                SearchLimit, mongo))

---------------------------------------------------------------------------
(* replaceLines *)

\* The range check of replaceLines without its test of lastReplacedLine against
\* the number of lines.
InvalidRangeNoUpper(firstReplacedLine, lastReplacedLine, length) ==
    \/ firstReplacedLine < 1
    \/ lastReplacedLine < 1
    \/ firstReplacedLine > length
    \/ firstReplacedLine > lastReplacedLine

\* The range check of replaceLines: TRUE when the call is rejected.
InvalidRange(firstReplacedLine, lastReplacedLine, length) ==
    \/ firstReplacedLine < 1
    \/ lastReplacedLine < 1
    \/ firstReplacedLine > length
    \/ lastReplacedLine > length
    \/ firstReplacedLine > lastReplacedLine

\* targetContent as it would be with the slice starting at line 1.
targetContentFromTop(lines, firstReplacedLine, lastReplacedLine) ==
    Join(Slice(lines, 0, lastReplacedLine))

\* lines.slice(firstReplacedLine - 1, lastReplacedLine).join('\n')
targetContent(lines, firstReplacedLine, lastReplacedLine) ==
    Join(Slice(lines, firstReplacedLine - 1, lastReplacedLine))

\* searchRegex.test(targetContent) for the RegExp built: "throw" when new RegExp
\* threw, else whether the test passes.
TestOf(searchRegex, target) ==
    IF searchRegex.err THEN "throw"
    ELSE IF RegExpTest(searchRegex, target) THEN "pass"
    ELSE "mismatch"

\* The pattern check of replaceLines.
PatternCheck(search, target) ==
    TestOf(RegExpOf(searchPattern(search)), target)

\* newLines as it would be with the tail starting one line early.
newLinesKeepLast(lines, firstReplacedLine, lastReplacedLine, replace) ==
    Slice(lines, 0, firstReplacedLine - 1) \o Split(replace)
        \o SliceFrom(lines, lastReplacedLine - 1)

\* [...lines.slice(0, first - 1), ...replace.split('\n'), ...lines.slice(last)]
newLines(lines, firstReplacedLine, lastReplacedLine, replace) ==
    Slice(lines, 0, firstReplacedLine - 1) \o Split(replace)
        \o SliceFrom(lines, lastReplacedLine)

\* An early return of replaceLines with a failure result.
ReplaceFailed(args, files, message, error) ==
    [step |-> "return", files |-> files,
     res |-> [success |-> FALSE, message |-> message,
              filePath |-> args.filePath, error |-> error]]

\* replaceLines from the pattern check on, check being its outcome.
planChecked(args, files, lines, check) ==
    IF check = "throw"
    THEN ReplaceFailed(args, files, "Failed to replace lines",
                       "Invalid regular expression")
    ELSE IF check = "mismatch"
    THEN ReplaceFailed(args, files,
                       <<"Search pattern does not match content at lines",
                         args.firstReplacedLine, args.lastReplacedLine>>,
                       "Search pattern mismatch")
    ELSE [step |-> "write", files |-> files,
          newContent |-> Join(newLines(lines, args.firstReplacedLine,
                                       args.lastReplacedLine, args.replace))]

\* replaceLines from the range check on, lines being originalContent.split('\n').
planLines(args, files, lines) ==
    IF InvalidRange(args.firstReplacedLine, args.lastReplacedLine, Len(lines))
    THEN ReplaceFailed(args, files,
                       <<"Invalid line range", args.firstReplacedLine,
                         args.lastReplacedLine>>,
                       "Invalid line range")
    ELSE planChecked(args, files, lines,
                     PatternCheck(args.search,
                                  targetContent(lines, args.firstReplacedLine,
                                                args.lastReplacedLine)))

\* replaceLines once getWidgetFiles has answered widgetData.
planFetched(args, widgetData) ==
    IF widgetData.error # ""
    THEN ReplaceFailed(args, widgetData.files, "Failed to replace lines",
                       widgetData.error)
    ELSE IF Falsy(widgetData.files, args.filePath)
    THEN [step |-> "return", files |-> widgetData.files,
          res |-> NotFound(args.filePath)]
    ELSE planLines(args, widgetData.files, Split(widgetData.files[args.filePath]))

\* replaceLines up to its write: the files it fetched and either the result it
\* returns early (step "return") or the content it goes on to write (step
\* "write").
replacePlan(st, args, mongo) ==
    planFetched(args, getWidgetFiles(st, args.widgetId, mongo))

\* ReplaceResult as it would be without the test of writeResponse.success.
ReplaceResultUnchecked(args, updateResult) ==
    [res |-> [success |-> TRUE,
              message |-> <<"Successfully replaced lines",
                            args.firstReplacedLine, args.lastReplacedLine>>,
              filePath |-> args.filePath],
     sent |-> updateResult.sent,
     store |-> updateResult.store]

\* The result replaceLines builds from writeFile's.
ReplaceResult(args, updateResult) ==
    [res |-> IF updateResult.res.success
             THEN [success |-> TRUE,
                   message |-> <<"Successfully replaced lines",
                                 args.firstReplacedLine, args.lastReplacedLine>>,
                   filePath |-> args.filePath]
             ELSE updateResult.res,
     sent |-> updateResult.sent,
     store |-> updateResult.store]

\* replaceLines from its write on, as it would be with the checks and the splice
\* redone on the content the store holds when the write is issued.
replaceWriteRevalidated(st, args, newContent, lam) ==
    IF replacePlan(st, args, "ok").step = "return"
    THEN [res |-> replacePlan(st, args, "ok").res, sent |-> <<>>, store |-> st]
    ELSE writeFile(st, [widgetId |-> args.widgetId, filePath |-> args.filePath,
                        content |-> replacePlan(st, args, "ok").newContent], lam)

\* The rest of replaceLines: writeFile with the content planned, and the result
\* built from writeFile's.
replaceWrite(st, args, newContent, lam) ==
    ReplaceResult(args, writeFile(st, [widgetId |-> args.widgetId,
                                       filePath |-> args.filePath,
                                       content |-> newContent], lam))

\* replaceLines from the plan on.
replaceEnd(st, args, plan, lam) ==
    IF plan.step = "return"
    THEN [res |-> plan.res, sent |-> <<>>, store |-> st]
    ELSE replaceWrite(st, args, plan.newContent, lam)

replaceLines(st, args, mongo, lam) ==
    replaceEnd(st, args, replacePlan(st, args, mongo), lam)

---------------------------------------------------------------------------
(* The hybrid search of the widget-search controller: search, searchCodebase *)
(* and runVectorSearchForWidget, and the tool handler that calls search      *)

\* Outcomes of the embedding request and of the $vectorSearch aggregation.
EmbedOutcomes == {"ok", "fail"}
VectorOutcomes == {"ok", "fail"}

\* The score floor of the aggregation, 0.4, in hundredths.
MinScore == 40

\* The aggregation as it would be without the score floor.
AggregateNoFloor(hits, widgetId, limit) ==
    SelectSeq(Slice(SelectSeq(hits, LAMBDA h : h.widgetId = widgetId), 0, limit),
              LAMBDA h : h.type = "code")

\* The aggregation over hits, the documents of the index nearest to the query,
\* best first: $vectorSearch answers the limit best of those of the widget, of
\* which the $match stages keep the documents of type 'code' and then those
\* scoring at least 0.4.
Aggregate(hits, widgetId, limit) ==
    SelectSeq(Slice(SelectSeq(hits, LAMBDA h : h.widgetId = widgetId), 0, limit),
              LAMBDA h : h.type = "code" /\ h.score >= MinScore)

\* resultsArray.push({...}) for every document of the aggregation.
SemanticResults(docs) ==
    [i \in 1 .. Len(docs) |->
        [filePath |-> docs[i].filePath, granularity |-> docs[i].granularity,
         score |-> docs[i].score, matchType |-> "semantic"]]

\* runVectorSearchForWidget: whatever getEmbedding, connect or aggregate throws
\* is caught and logged, and the empty list is returned.
runVectorSearchForWidget(hits, widgetId, limit, embed, vector) ==
    IF embed = "fail" \/ vector = "fail" THEN <<>>
    ELSE SemanticResults(Aggregate(hits, widgetId, limit))

\* The results of a find as they would be if always tagged 'exact'.
FoundResultsExact(docs, matchType) ==
    [i \in 1 .. Len(docs) |->
        [filePath |-> docs[i].filePath, content |-> docs[i].content,
         matchType |-> "exact"]]

\* exactResults.map / filenameResults.map
FoundResults(docs, matchType) ==
    [i \in 1 .. Len(docs) |->
        [filePath |-> docs[i].filePath, content |-> docs[i].content,
         matchType |-> matchType]]

\* What a function returns, or the error it throws.
Returned(results) == [threw |-> FALSE, error |-> "", results |-> results]
Thrown(error) == [threw |-> TRUE, error |-> error, results |-> <<>>]

\* The exact and filename cases of searchCodebase once the query is compiled.
FindResults(st, args, re) ==
    IF re.err THEN Thrown("Invalid regular expression")
    ELSE Returned(FoundResults(FindDocs(st, args.widgetId, re, args.searchType,
                                        args.limit),
                               args.searchType))

\* searchCodebase under the outcomes env: the catch block logs and throws again.
searchCodebase(st, args, env) ==
    IF env.mongo = "nouri"
    THEN Thrown("EMBEDDINGS_MONGODB_URI environment variable is required")
    ELSE IF env.mongo = "dberror" THEN Thrown("MongoDB error")
    ELSE IF args.searchType = "semantic"
    THEN Returned(runVectorSearchForWidget(env.hits, args.widgetId, args.limit,
                                           env.embed, env.vector))
    ELSE FindResults(st, args, RegExpOf(args.query))

\* WidgetSearchController.search: the results as JSON, or the error of
\* searchCodebase thrown again by its catch block.
controllerSearch(st, args, env) == searchCodebase(st, args, env)

\* handleWidgetSearch of the tool layer: the controller's content, or the error
\* it threw formatted by formatErrorForMcpTool.
handleWidgetSearch(found) ==
    IF found.threw THEN [isError |-> TRUE, text |-> found.error]
    ELSE [isError |-> FALSE, text |-> found.results]

---------------------------------------------------------------------------
(* State and operations *)

NoOp == [op |-> "none"]
Idle == [pc |-> "idle"]
NoPat == [pc |-> "none"]

T1(a) == <<a>>
T2(a, b) == <<a, b>>
T3(a, b, c) == <<a, b, c>>

\* Inputs of the operations when they run one after another.
SeqContents == {<<>>, T3("a", NL, "b")}
SeqSearches == {T1("a")}
SeqReplaces == {T3("a", NL, "b")}
SeqLines == 1 .. 2
SeqViews == {<<>>, <<T3("1", "-", "2")>>}
SeqQueries == {T1("a"), T1("(")}
SeqIncludes == {<<"/", "a">>}

NoDocs == [w \in Widgets |-> <<>>]

Init ==
    /\ store = NoDocs
    /\ last = NoOp
    /\ call = [c \in Callers |-> Idle]
    /\ pat = NoPat
    /\ changedFiles = {}

\* The record of a completed operation: the request, the outcomes of the remote
\* calls it made ("none" for a call it did not make), the files it fetched, its
\* result and the payloads it sent.
Done(op, caller, args, mongo, lam, files, r) ==
    [op |-> op, caller |-> caller, args |-> args, mongo |-> mongo, lam |-> lam,
     files |-> files, res |-> r.res, sent |-> r.sent]

\* The handler has returned r: the store is as r leaves it and the operation is
\* recorded.
Finish(op, caller, args, mongo, lam, files, r) ==
    /\ store' = r.store
    /\ last' = Done(op, caller, args, mongo, lam, files, r)

WriteFile ==
    \E w \in Widgets, p \in Paths, c \in SeqContents, lam \in LambdaOutcomes :
        /\ Finish("writeFile", "none",
                  [widgetId |-> w, filePath |-> p, content |-> c], "none", lam,
                  NoFiles,
                  writeFile(store, [widgetId |-> w, filePath |-> p, content |-> c],
                            lam))
        /\ UNCHANGED <<call, pat, changedFiles>>

DeleteFile ==
    \E w \in Widgets, p \in Paths, ri \in BOOLEAN, lam \in LambdaOutcomes :
        /\ Finish("deleteFile", "none",
                  [widgetId |-> w, filePath |-> p, removeFromIndex |-> ri], "none",
                  lam, NoFiles,
                  deleteFile(store, [widgetId |-> w, filePath |-> p,
                                     removeFromIndex |-> ri], lam))
        /\ UNCHANGED <<call, pat, changedFiles>>

\* The arguments of viewFile; opt is <<>> when lines is left out and <<lines>>
\* when it is given.
ViewArgs(w, p, opt) ==
    IF Len(opt) = 0 THEN [widgetId |-> w, filePath |-> p]
    ELSE [widgetId |-> w, filePath |-> p, lines |-> opt[1]]

ViewCall(args, mongo) ==
    /\ Finish("viewFile", "none", args, mongo, "none",
              getWidgetFiles(store, args.widgetId, mongo).files,
              viewFile(store, args, mongo))
    /\ UNCHANGED <<call, pat, changedFiles>>

ViewFileOf(Ws, Ps, Opts) ==
    \E w \in Ws, p \in Ps, opt \in Opts, mongo \in MongoOutcomes :
        ViewCall(ViewArgs(w, p, opt), mongo)

ViewFile == ViewFileOf(Widgets, Paths, SeqViews)

\* The arguments of searchFiles; exc is <<>> when excludePattern is left out.
SearchArgs(w, query, inc, exc, cs, n) ==
    IF Len(exc) = 0
    THEN [widgetId |-> w, query |-> query, includePattern |-> inc,
          caseSensitive |-> cs, contextLines |-> n]
    ELSE [widgetId |-> w, query |-> query, includePattern |-> inc,
          excludePattern |-> exc[1], caseSensitive |-> cs, contextLines |-> n]

\* A searchFiles call whose scan never ends returns nothing; the call is
\* recorded as hung.
Hung(op, args, mongo) == [op |-> "hung", of |-> op, args |-> args, mongo |-> mongo]

\* searchFiles has returned r, or hangs.
SearchReturn(args, mongo, r) ==
    /\ IF r.hang
       THEN last' = Hung("searchFiles", args, mongo) /\ store' = store
       ELSE Finish("searchFiles", "none", args, mongo, "none", NoFiles, r)
    /\ UNCHANGED <<call, pat, changedFiles>>

SearchCall(args, mongo) == SearchReturn(args, mongo, searchFiles(store, args, mongo))

SearchFilesOf(Ws, Queries, Incs, Excs, Cases, Contexts) ==
    \E w \in Ws, query \in Queries, inc \in Incs, exc \in Excs, cs \in Cases,
       n \in Contexts, mongo \in MongoOutcomes :
        SearchCall(SearchArgs(w, query, inc, exc, cs, n), mongo)

\* The searches of the operations when they run one after another: their
\* queries match no empty string, so each call returns.
SearchFiles ==
    SearchFilesOf(Widgets, SeqQueries, SeqIncludes, {<<>>}, {FALSE}, {ContextWidth})

\* replaceLines with its plan known: the Lambda is called, with outcome lam, only
\* when the plan reaches the write.  Calls whose new content would be longer
\* than cap are left out.
ReplaceWith(args, mongo, plan, cap) ==
    \E lam \in IF plan.step = "write" THEN LambdaOutcomes ELSE {"none"} :
        /\ plan.step = "write" => Len(plan.newContent) <= cap
        /\ Finish("replaceLines", "none", args, mongo, lam, plan.files,
                  replaceEnd(store, args, plan, lam))
        /\ UNCHANGED <<call, pat, changedFiles>>

\* One whole replaceLines call, with nothing running between its fetch and its
\* write.
ReplaceCall(args, mongo, cap) ==
    ReplaceWith(args, mongo, replacePlan(store, args, mongo), cap)

ReplaceLinesOf(Ws, Ps, Searches, Replaces, Lines, cap) ==
    \E w \in Ws, p \in Ps, search \in Searches, replace \in Replaces,
       first \in Lines, lastL \in Lines, mongo \in MongoOutcomes :
        ReplaceCall([widgetId |-> w, filePath |-> p, search |-> search,
                     firstReplacedLine |-> first, lastReplacedLine |-> lastL,
                     replace |-> replace], mongo, cap)

ReplaceLines ==
    ReplaceLinesOf(Widgets, Paths, SeqSearches, SeqReplaces, SeqLines, MaxContentLen)

Next ==
    \/ WriteFile
    \/ DeleteFile
    \/ ViewFile
    \/ SearchFiles
    \/ ReplaceLines

Spec == Init /\ [][Next]_vars

---------------------------------------------------------------------------
(* One replaceLines call on the file /a of widget w1, for every content of  *)
(* the file, every search text, range and replace text within the bounds   *)

OneFile(c) == [NoDocs EXCEPT !["w1"] = <<[filePath |-> "/a", content |-> c]>>]

TwoFiles(a, b) ==
    [NoDocs EXCEPT !["w1"] = <<[filePath |-> "/a", content |-> a],
                               [filePath |-> "/b", content |-> b]>>]

InitReplace ==
    /\ store \in {NoDocs} \cup {OneFile(c) : c \in TextsOver(Chars, MaxLen)}
    /\ last = NoOp
    /\ call = [c \in Callers |-> Idle]
    /\ pat = NoPat
    /\ changedFiles = {}

ReplaceOnce ==
    /\ last.op = "none"
    /\ ReplaceLinesOf({"w1"}, {"/a"}, TextsOver(SearchChars, MaxSearchLen),
                      TextsOver(Chars, MaxReplaceLen), 0 .. MaxLine,
                      MaxLen + MaxReplaceLen)

SpecReplace == InitReplace /\ [][ReplaceOnce]_vars

---------------------------------------------------------------------------
(* The pattern check of replaceLines on its own: for every search text and  *)
(* every range text within the bounds, and for the example of the           *)
(* documentation, a function whose first line holds parentheses             *)

\* search 'a()\n...\na' against the four lines 'a()', '.', '.', 'a'
ExampleSearch == <<"a", "(", ")", NL, ".", ".", ".", NL, "a">>
ExampleTarget == <<"a", "(", ")", NL, ".", NL, ".", NL, "a">>

InitPat ==
    /\ store = NoDocs
    /\ last = NoOp
    /\ call = [c \in Callers |-> Idle]
    /\ pat \in {[pc |-> "ready", search |-> s, target |-> t] :
                   s \in TextsOver(SearchChars, MaxPatLen),
                   t \in TextsOver(TargetChars, MaxTargetLen)}
               \cup {[pc |-> "ready", search |-> ExampleSearch, target |-> ExampleTarget]}
    /\ changedFiles = {}

CheckPattern ==
    /\ pat.pc = "ready"
    /\ pat' = [pc |-> "checked", search |-> pat.search, target |-> pat.target,
               outcome |-> PatternCheck(pat.search, pat.target)]
    /\ UNCHANGED <<store, last, call, changedFiles>>

SpecPat == InitPat /\ [][CheckPattern]_vars

---------------------------------------------------------------------------
(* Two replaceLines calls on the file /a of widget w1 running together: a   *)
(* call gives way at its await of getWidgetFiles and at its await of        *)
(* writeFile, so the other call's steps can run between its fetch and its   *)
(* write                                                                    *)

ConcSearches == {T1("a"), T1("b")}
ConcReplaces == {<<>>, T1("b")}
ConcLines == 1 .. 2

\* Caller c has fetched and planned: a call that fails a check ends here, the
\* others hold the content they spliced.
Fetched(c, args, mongo, plan) ==
    IF plan.step = "return"
    THEN /\ call' = [call EXCEPT ![c] = [pc |-> "done", args |-> args,
                                         res |-> plan.res]]
         /\ last' = Done("replaceLines", c, args, mongo, "none", plan.files,
                         [res |-> plan.res, sent |-> <<>>])
         /\ UNCHANGED <<store, pat, changedFiles>>
    ELSE /\ call' = [call EXCEPT ![c] = [pc |-> "fetched", args |-> args,
                                         files |-> plan.files,
                                         newContent |-> plan.newContent]]
         /\ UNCHANGED <<store, last, pat, changedFiles>>

ConcCall(c, args, mongo) ==
    Fetched(c, args, mongo, replacePlan(store, args, mongo))

\* The call of caller c up to its await of writeFile: the fetch, the checks
\* and the splice.
ConcFetch(c) ==
    /\ call[c].pc = "idle"
    /\ \E search \in ConcSearches, replace \in ConcReplaces,
          first \in ConcLines, lastL \in ConcLines, mongo \in MongoOutcomes :
          ConcCall(c, [widgetId |-> "w1", filePath |-> "/a", search |-> search,
                       firstReplacedLine |-> first, lastReplacedLine |-> lastL,
                       replace |-> replace], mongo)

\* The write of caller c has returned r.
Written(c, lam, r) ==
    /\ store' = r.store
    /\ call' = [call EXCEPT ![c] = [pc |-> "done", args |-> call[c].args,
                                    files |-> call[c].files,
                                    newContent |-> call[c].newContent,
                                    res |-> r.res]]
    /\ last' = Done("replaceLines", c, call[c].args, "ok", lam, call[c].files, r)
    /\ UNCHANGED <<pat, changedFiles>>

\* The rest of the call of caller c: the write of the content it spliced.
ConcWrite(c) ==
    /\ call[c].pc = "fetched"
    /\ \E lam \in LambdaOutcomes :
          Written(c, lam, replaceWrite(store, call[c].args, call[c].newContent, lam))

InitConc ==
    /\ store \in {OneFile(c) : c \in TextsOver(Chars, MaxLen)}
    /\ last = NoOp
    /\ call = [c \in Callers |-> Idle]
    /\ pat = NoPat
    /\ changedFiles = {}

NextConc == \E c \in Callers : ConcFetch(c) \/ ConcWrite(c)

SpecConc == InitConc /\ [][NextConc]_vars

---------------------------------------------------------------------------
(* The hybrid search on its own: any request of the three search types, under *)
(* every outcome of the database connection, the embedding request and the    *)
(* aggregation, over stores of at most one file                               *)

Hit(widgetId, type, filePath, score, granularity) ==
    [widgetId |-> widgetId, type |-> type, filePath |-> filePath,
     score |-> score, granularity |-> granularity]

\* The documents the index may hold, best first, scores in hundredths.
HitPool ==
    <<Hit("w2", "code", "/a", 99, "file"),
      Hit("w1", "doc", "/b", 95, "file"),
      Hit("w1", "code", "/a", 90, "file"),
      Hit("w1", "code", "/b", 40, "function"),
      Hit("w1", "code", "/b", 30, "function")>>

\* What the index holds for a query: any of the documents, best first.
HitLists ==
    {SelectSeq(HitPool, LAMBDA h : h \in S) :
        S \in SUBSET {HitPool[i] : i \in 1 .. Len(HitPool)}}

SearchTypes == {"semantic", "exact", "filename"}
HybridLimits == {1, 2}
HybridQueries == {T1("a"), T1("A"), T1("/"), T1("(")}

\* Stores of both widgets, of at most two files each.
HybridStores ==
    {NoDocs, OneFile(T1("a")), OneFile(T3("a", NL, "b")),
     TwoFiles(T1("a"), T1("b")), TwoFiles(T1("b"), T2("b", "A")),
     [TwoFiles(T1("a"), T1("a")) EXCEPT
          !["w2"] = <<[filePath |-> "/a", content |-> T1("a")]>>]}

InitHybrid ==
    /\ store \in HybridStores
    /\ last = NoOp
    /\ call = [c \in Callers |-> Idle]
    /\ pat = NoPat
    /\ changedFiles = {}

\* handleWidgetSearch has answered: found is what the controller returned or
\* threw, tool what the handler made of it.
SearchDone(args, env, found) ==
    /\ last' = [op |-> "search", args |-> args, env |-> env, res |-> found,
                tool |-> handleWidgetSearch(found)]
    /\ UNCHANGED <<store, call, pat, changedFiles>>

HybridCall(args, env) == SearchDone(args, env, controllerSearch(store, args, env))

\* One search request on the store as it stands.
HybridSearch ==
    /\ last.op = "none"
    /\ \E w \in Widgets, q \in HybridQueries, t \in SearchTypes,
          n \in HybridLimits, mongo \in MongoOutcomes,
          embed \in EmbedOutcomes, vector \in VectorOutcomes,
          hits \in HitLists :
           HybridCall([widgetId |-> w, query |-> q, searchType |-> t,
                       limit |-> n],
                      [mongo |-> mongo, embed |-> embed, vector |-> vector,
                       hits |-> hits])

SpecHybrid == InitHybrid /\ [][HybridSearch]_vars

---------------------------------------------------------------------------
(* parseLineRanges and extractLines on their own: every lines argument and  *)
(* every file and list of ranges within the bounds                          *)

RangeChars == {"0", "1", "2", "-", ",", " ", "x"} \* characters of lines arguments
LineChars == {"a", NL}                             \* characters of the files

\* The ranges parseLineRanges can return within the bounds: it reads no sign,
\* and pushes a range only when start <= end.
RangesUpTo(n) ==
    {r \in [start : 0 .. n, end : 0 .. n] : r.start <= r.end}

RECURSIVE RangeLists(_, _)
RangeLists(R, n) ==
    IF n = 0 THEN {<<>>}
    ELSE RangeLists(R, n - 1)
             \cup {Append(l, r) : l \in {k \in RangeLists(R, n - 1) : Len(k) = n - 1},
                                  r \in R}

InitRanges ==
    /\ store = NoDocs
    /\ last = NoOp
    /\ call = [c \in Callers |-> Idle]
    /\ pat = NoPat
    /\ changedFiles = {}

Parsed(lines, ranges) ==
    /\ last' = [op |-> "parseLineRanges", args |-> [lines |-> lines],
                res |-> ranges]
    /\ UNCHANGED <<store, call, pat, changedFiles>>

ParseOnce ==
    /\ last.op = "none"
    /\ \E lines \in TextsOver(RangeChars, MaxRangeLen) :
           Parsed(lines, parseLineRanges(lines))

Extracted(content, ranges, text) ==
    /\ last' = [op |-> "extractLines",
                args |-> [content |-> content, ranges |-> ranges],
                res |-> text]
    /\ UNCHANGED <<store, call, pat, changedFiles>>

ExtractOnce ==
    /\ last.op = "none"
    /\ \E content \in TextsOver(LineChars, MaxLen),
          ranges \in RangeLists(RangesUpTo(MaxRangeEnd), MaxRanges) :
           Extracted(content, ranges, extractLines(content, ranges))

NextRanges == ParseOnce \/ ExtractOnce

SpecRanges == InitRanges /\ [][NextRanges]_vars

---------------------------------------------------------------------------
(* viewFile on its own: one view, with and without a lines argument, of a   *)
(* stored file that is short, or as long as or longer than the 500 lines of *)
(* the default view                                                         *)

\* A file of n empty lines.
EmptyLines(n) == [i \in 1 .. n - 1 |-> NL]

LongFiles == {EmptyLines(ViewLimit), EmptyLines(ViewLimit + 1)}

\* The lines argument: left out, empty, or a range string.
ViewOpts ==
    {<<>>, <<(<<>>)>>, <<T1("2")>>, <<T3("1", "-", "2")>>, <<T3("2", ",", "1")>>}

InitView ==
    /\ store \in {NoDocs}
                     \cup {OneFile(c) : c \in TextsOver(Chars, MaxLen) \cup LongFiles}
    /\ last = NoOp
    /\ call = [c \in Callers |-> Idle]
    /\ pat = NoPat
    /\ changedFiles = {}

ViewOnce ==
    /\ last.op = "none"
    /\ ViewFileOf({"w1"}, Paths, ViewOpts)

SpecView == InitView /\ [][ViewOnce]_vars

---------------------------------------------------------------------------
(* searchFiles on its own: one search of a widget holding at most two files, *)
(* for literal queries and regular expressions, with and without a '*' in    *)
(* includePattern, with and without excludePattern, for two context widths   *)

\* 'aa bb aa', a file of five lines, and two short files
SearchTexts ==
    {<<"a", "a", " ", "b", "b", " ", "a", "a">>,
     <<"a", NL, "b", NL, "b", NL, "b", NL, "a">>,
     T2("A", "a"),
     T1("b")}

SearchQueries == {T1("a"), T2("a", "a"), T1("b"), T2("a", "."), T2("a", "*"), T1("(")}
SearchIncludes == {T2("/", "a"), T1("*")}
SearchExcludes == {<<>>, <<T2("/", "b")>>}
SearchContexts == {1, ContextWidth}

InitSearch ==
    /\ store \in {NoDocs} \cup {OneFile(c) : c \in SearchTexts}
                     \cup {TwoFiles(a, b) : a \in SearchTexts, b \in SearchTexts}
    /\ last = NoOp
    /\ call = [c \in Callers |-> Idle]
    /\ pat = NoPat
    /\ changedFiles = {}

SearchOnce ==
    /\ last.op = "none"
    /\ SearchFilesOf({"w1"}, SearchQueries, SearchIncludes, SearchExcludes,
                     {FALSE}, SearchContexts)

SpecSearch == InitSearch /\ [][SearchOnce]_vars

---------------------------------------------------------------------------
(* searchFiles with either value of caseSensitive, for literal queries in    *)
(* lower and upper case                                                      *)

CaseQueries == {T1("a"), T1("A"), T2("a", "a"), T1("b")}

CaseSearchOnce ==
    /\ last.op = "none"
    /\ SearchFilesOf({"w1"}, CaseQueries, SearchIncludes, {<<>>}, {FALSE, TRUE},
                     {ContextWidth})

SpecCase == InitSearch /\ [][CaseSearchOnce]_vars

---------------------------------------------------------------------------
(* The MongoDB clients of getWidgetFiles, searchInMongoDB, searchCodebase and *)
(* runVectorSearchForWidget, step by step, for two callers at once: each      *)
(* function creates its client, connects and works inside try, and closes the *)
(* client in finally                                                          *)

\* The operations that open a client, by the function that opens it.
ConnOps == {"viewFile", "replaceLines", "searchFiles", "search"}

\* client.close() in finally, as it would be if reached on the success path only.
ClosedOnSuccess(client, failed) ==
    IF client = "open" /\ ~failed THEN "closed" ELSE client

\* client.close() in finally: runs on every path out of try.
Closed(client, failed) ==
    IF client = "open" THEN "closed" ELSE client

\* The position of a call: its operation, whether it is a semantic search, the
\* state of the client of the function called (outer) and of the client of
\* runVectorSearchForWidget (inner), and whether something has thrown.
At(pc, op, semantic, outer, inner, failed) ==
    [pc |-> pc, op |-> op, semantic |-> semantic, outer |-> outer,
     inner |-> inner, failed |-> failed]

Move(c, pc, outer, inner, failed) ==
    /\ call' = [call EXCEPT ![c] = At(pc, call[c].op, call[c].semantic, outer,
                                      inner, failed)]
    /\ UNCHANGED <<store, last, pat, changedFiles>>

\* The call of caller c is over: what it leaves of its clients is recorded.
Returns(c, op, semantic, outer, inner, failed) ==
    /\ call' = [call EXCEPT ![c] = Idle]
    /\ last' = [op |-> "returned", of |-> op, caller |-> c, semantic |-> semantic,
                outer |-> outer, inner |-> inner, failed |-> failed]
    /\ UNCHANGED <<store, pat, changedFiles>>

\* The function is entered: without EMBEDDINGS_MONGODB_URI it throws before any
\* client exists, else new MongoClient(mongoUri).
ConnStart(c) ==
    /\ call[c].pc = "idle"
    /\ \E op \in ConnOps, semantic \in BOOLEAN, uri \in BOOLEAN :
          /\ semantic => op = "search"
          /\ IF uri
             THEN /\ call' = [call EXCEPT ![c] = At("created", op, semantic,
                                                    "none", "none", FALSE)]
                  /\ UNCHANGED <<store, last, pat, changedFiles>>
             ELSE Returns(c, op, semantic, "none", "none", TRUE)

\* await client.connect(): the connection opens, or connect throws.
ConnConnect(c) ==
    /\ call[c].pc = "created"
    /\ \/ Move(c, "connected", "open", call[c].inner, FALSE)
       \/ Move(c, "finally", call[c].outer, call[c].inner, TRUE)

\* The query on the connection: a semantic search goes on to
\* runVectorSearchForWidget, the others find their documents or throw.
ConnWork(c) ==
    /\ call[c].pc = "connected"
    /\ IF call[c].semantic
       THEN Move(c, "innerCreated", call[c].outer, call[c].inner, FALSE)
       ELSE \E failed \in BOOLEAN :
                Move(c, "finally", call[c].outer, call[c].inner, failed)

\* runVectorSearchForWidget: await client.connect() on its own client.
InnerConnect(c) ==
    /\ call[c].pc = "innerCreated"
    /\ \/ Move(c, "innerConnected", call[c].outer, "open", FALSE)
       \/ Move(c, "innerFinally", call[c].outer, call[c].inner, TRUE)

\* runVectorSearchForWidget: getEmbedding and aggregate, either of which may
\* throw.
InnerWork(c) ==
    /\ call[c].pc = "innerConnected"
    /\ \E failed \in BOOLEAN :
          Move(c, "innerFinally", call[c].outer, call[c].inner, failed)

\* runVectorSearchForWidget: finally; its catch has swallowed what was thrown.
InnerClose(c) ==
    /\ call[c].pc = "innerFinally"
    /\ Move(c, "finally", call[c].outer, Closed(call[c].inner, call[c].failed),
            FALSE)

\* finally of the function called.
ConnClose(c) ==
    /\ call[c].pc = "finally"
    /\ Move(c, "closed", Closed(call[c].outer, call[c].failed), call[c].inner,
            call[c].failed)

\* The operation returns: what it does after the function called (not found,
\* the validation of the range, the write through the Lambda) uses no client.
ConnReturn(c) ==
    /\ call[c].pc = "closed"
    /\ \E failedLater \in BOOLEAN :
          Returns(c, call[c].op, call[c].semantic, call[c].outer, call[c].inner,
                  call[c].failed \/ failedLater)

InitConn ==
    /\ store = NoDocs
    /\ last = NoOp
    /\ call = [c \in Callers |-> Idle]
    /\ pat = NoPat
    /\ changedFiles = {}

NextConn ==
    \E c \in Callers :
        \/ ConnStart(c)
        \/ ConnConnect(c)
        \/ ConnWork(c)
        \/ InnerConnect(c)
        \/ InnerWork(c)
        \/ InnerClose(c)
        \/ ConnClose(c)
        \/ ConnReturn(c)

SpecConn == InitConn /\ [][NextConn]_vars

---------------------------------------------------------------------------
(* The outbound calls and their waits: lambdaClient.send of the file manager, *)
(* openai.embeddings.create of the semantic search, and lambdaClient.send of  *)
(* the file extraction service, which alone is raced against a timer.  The    *)
(* remote side answers or stays silent; the handlers and the timer take their *)
(* steps whenever they can                                                    *)

\* The operations that await the Lambda of the file manager or the embedding
\* provider, and the file extraction that awaits its Lambda under withTimeout.
AwaitingOps == {"writeFile", "deleteFile", "replaceLines", "semantic"}
RemoteOps == AwaitingOps \cup {"extractFiles"}

\* The await is raced against a timer: withTimeout(lambdaClient.send(command),
\* LAMBDA_TIMEOUT) in the file extraction service only.
Timed(op) == op = "extractFiles"

Waiting(op, attempts) == [pc |-> "awaiting", op |-> op, attempts |-> attempts]
Settled(op, attempts, outcome) ==
    [pc |-> "settled", op |-> op, attempts |-> attempts, outcome |-> outcome]

\* The handler issues its one request and awaits the answer.
RemoteSend(c) ==
    /\ call[c].pc = "idle"
    /\ \E op \in RemoteOps : call' = [call EXCEPT ![c] = Waiting(op, 1)]
    /\ UNCHANGED <<store, last, pat, changedFiles>>

\* The remote side answers, with a result or an error.
RemoteAnswer(c) ==
    /\ call[c].pc = "awaiting"
    /\ \E outcome \in {"ok", "error"} :
          call' = [call EXCEPT ![c] = Settled(call[c].op, call[c].attempts, outcome)]
    /\ UNCHANGED <<store, last, pat, changedFiles>>

\* The timer of withTimeout fires first: the race rejects.
RemoteTimeout(c) ==
    /\ call[c].pc = "awaiting"
    /\ Timed(call[c].op)
    /\ call' = [call EXCEPT ![c] = Settled(call[c].op, call[c].attempts, "timeout")]
    /\ UNCHANGED <<store, last, pat, changedFiles>>

\* The await is over: the handler returns its result, a failure unless the
\* answer was a result.
RemoteReturn(c) ==
    /\ call[c].pc = "settled"
    /\ call' = [call EXCEPT ![c] = Idle]
    /\ last' = [op |-> "answered", of |-> call[c].op, caller |-> c,
                success |-> call[c].outcome = "ok",
                attempts |-> call[c].attempts]
    /\ UNCHANGED <<store, pat, changedFiles>>

InitRemote ==
    /\ store = NoDocs
    /\ last = NoOp
    /\ call = [c \in Callers |-> Idle]
    /\ pat = NoPat
    /\ changedFiles = {}

NextRemote ==
    \E c \in Callers :
        \/ RemoteSend(c)
        \/ RemoteAnswer(c)
        \/ RemoteTimeout(c)
        \/ RemoteReturn(c)

\* The handlers and the timers are scheduled; nothing makes the remote side
\* answer.
SpecRemote ==
    /\ InitRemote
    /\ [][NextRemote]_vars
    /\ \A c \in Callers : WF_vars(RemoteTimeout(c)) /\ WF_vars(RemoteReturn(c))

---------------------------------------------------------------------------
(* The CodeChecker: registerFileChange, clearChangedFiles, checkChangedFiles *)
(* with runCheckers and checkCSS.  A path is its name and its extension; the *)
(* TypeScript and JSON checkers are taken by what they answer                *)

CssChars == {"{", "}", ":", "<", "a", NL}   \* characters of the files checked

FilePath(name, ext) == [name |-> name, ext |-> ext]
CheckPaths == {FilePath("/a", ".css"), FilePath("/c", ".ts"), FilePath("/d", ".txt")}

\* path.extname(filePath)
extname(filePath) == filePath.ext

supportedExtensions == {".ts", ".tsx", ".css", ".json"}

\* String.prototype.includes(sub)
Includes(text, sub) ==
    \E p \in 0 .. Len(text) - Len(sub) : SubSeq(text, p + 1, p + Len(sub)) = sub

\* String.prototype.indexOf(sub) for a text that includes sub
IndexOf(text, sub) ==
    CHOOSE p \in 0 .. Len(text) - Len(sub) :
        /\ SubSeq(text, p + 1, p + Len(sub)) = sub
        /\ \A q \in 0 .. p - 1 : SubSeq(text, q + 1, q + Len(sub)) # sub

\* (line.match(/ch/g) || []).length
CountOf(text, ch) == Cardinality({i \in 1 .. Len(text) : text[i] = ch})

CheckError(file, line, column, message, rule, severity) ==
    [file |-> file, line |-> line, column |-> column, message |-> message,
     rule |-> rule, severity |-> severity]

\* The errors checkCSS pushes for the trimmed line of index i (from 0).
CssLineErrors(file, line, i) ==
    (IF /\ Includes(line, <<":", ":">>)
        /\ ~Includes(line, <<":", ":", "b", "e", "f", "o", "r", "e">>)
        /\ ~Includes(line, <<":", ":", "a", "f", "t", "e", "r">>)
     THEN <<CheckError(file, i + 1, IndexOf(line, <<":", ":">>),
                       "Invalid CSS pseudo-element syntax", "css-syntax", "error")>>
     ELSE <<>>)
    \o (IF Includes(line, <<"<">>) /\ ~Includes(line, <<"<", "!", "-", "-">>)
        THEN <<CheckError(file, i + 1, IndexOf(line, <<"<">>),
                          "Invalid character in CSS: <", "css-syntax", "error")>>
        ELSE <<>>)

RECURSIVE CssErrorsFrom(_, _, _)
CssErrorsFrom(file, lines, i) ==
    IF i >= Len(lines) THEN <<>>
    ELSE CssLineErrors(file, Trim(lines[i + 1]), i)
             \o CssErrorsFrom(file, lines, i + 1)

\* The error checkCSS pushes after the loop when openBraces is not 0.
BraceErrors(file, lines, openBraces) ==
    IF openBraces # 0
    THEN <<CheckError(file, Len(lines), 0,
                      IF openBraces > 0
                      THEN "Unbalanced braces: missing closing braces"
                      ELSE "Unbalanced braces: extra closing braces",
                      "css-braces", "error")>>
    ELSE <<>>

\* The braces opened less the braces closed over the lines of the file.
openBracesOf(content) == CountOf(content, "{") - CountOf(content, "}")

checkCSS(file, content) ==
    CssErrorsFrom(file, Split(content), 0)
        \o BraceErrors(file, Split(content), openBracesOf(content))

\* The file written to the temp directory for the entry.
TempFile(entry) == [temp |-> entry.filePath, content |-> entry.content]

\* writeFilesToTemp: the entries of files whose path is registered.
writeFilesToTemp(changed, files) ==
    SelectSeq(files, LAMBDA e : e.filePath \in changed)

\* The switch of runCheckers on the extension; other is what the TypeScript or
\* JSON checker answers.
CheckOne(entry, other) ==
    IF extname(entry.filePath) = ".css"
    THEN checkCSS(TempFile(entry).temp, entry.content)
    ELSE IF extname(entry.filePath) \in {".ts", ".tsx", ".json"} THEN other
    ELSE <<>>

RECURSIVE CheckAll(_, _)
CheckAll(tempFiles, other) ==
    IF Len(tempFiles) = 0 THEN <<>>
    ELSE CheckOne(tempFiles[1], other) \o CheckAll(Tail(tempFiles), other)

\* The CheckResult of runCheckers for the errors collected.
CheckResult(errors) ==
    [success |-> \A i \in 1 .. Len(errors) : errors[i].severity # "error",
     errors |-> errors]

runCheckers(tempFiles, other) == CheckResult(CheckAll(tempFiles, other))

\* checkChangedFiles: nothing to do without a registered file; a failure of the
\* file system while the files are written is caught as a system error.
checkChangedFiles(changed, files, other, io) ==
    IF changed = {} THEN [success |-> TRUE, errors |-> <<>>]
    ELSE IF io = "fail"
    THEN [success |-> FALSE,
          errors |-> <<CheckError("system", 0, 0, "Code checking system error",
                                  "system", "error")>>]
    ELSE runCheckers(writeFilesToTemp(changed, files), other)

\* What the TypeScript or JSON checker may answer for a file.
OtherAnswers ==
    {<<>>,
     <<CheckError("ts", 1, 1, "error", "typescript", "error")>>,
     <<CheckError("ts", 1, 1, "warning", "typescript", "warning")>>}

Entry(filePath, content) == [filePath |-> filePath, content |-> content]

\* The files handed to checkChangedFiles: one file, or the CSS file followed by
\* a TypeScript file.
CheckedFiles ==
    {<<Entry(p, c)>> : p \in CheckPaths, c \in TextsOver(CssChars, MaxCssLen)}
        \cup {<<Entry(FilePath("/a", ".css"), c), Entry(FilePath("/c", ".ts"), T1("a"))>> :
                  c \in TextsOver(CssChars, MaxCssLen)}

InitCheck ==
    /\ store = NoDocs
    /\ last = NoOp
    /\ call = [c \in Callers |-> Idle]
    /\ pat = NoPat
    /\ changedFiles = {}

RegisterFileChange ==
    /\ \E p \in CheckPaths :
          changedFiles' = IF extname(p) \in supportedExtensions
                          THEN changedFiles \cup {p} ELSE changedFiles
    /\ last' = NoOp
    /\ UNCHANGED <<store, call, pat>>

ClearChangedFiles ==
    /\ changedFiles' = {}
    /\ last' = NoOp
    /\ UNCHANGED <<store, call, pat>>

FilesChecked(files, other, io, result) ==
    /\ last' = [op |-> "checkChangedFiles", files |-> files, other |-> other,
                io |-> io, res |-> result]
    /\ UNCHANGED <<store, call, pat, changedFiles>>

CheckChangedFiles ==
    /\ last.op = "none"
    /\ \E files \in CheckedFiles, other \in OtherAnswers, io \in {"ok", "fail"} :
          FilesChecked(files, other, io,
                       checkChangedFiles(changedFiles, files, other, io))

NextCheck == RegisterFileChange \/ ClearChangedFiles \/ CheckChangedFiles

SpecCheck == InitCheck /\ [][NextCheck]_vars

---------------------------------------------------------------------------
(* One viewFile or replaceLines call on a widget whose index holds the file *)
(* /a in two documents, with or without a document of /b between them      *)

ChunkTexts == {<<>>, T1("a"), T1("b"), T3("a", NL, "b")}

Chunk(filePath, content) == [filePath |-> filePath, content |-> content]

ChunkStores ==
    {[NoDocs EXCEPT !["w1"] = <<Chunk("/a", c), Chunk("/a", d)>>] :
         c \in ChunkTexts, d \in ChunkTexts}
    \cup {[NoDocs EXCEPT !["w1"] = <<Chunk("/a", c), Chunk("/b", T1("b")), Chunk("/a", d)>>] :
              c \in ChunkTexts, d \in ChunkTexts}

InitChunks ==
    /\ store \in ChunkStores
    /\ last = NoOp
    /\ call = [c \in Callers |-> Idle]
    /\ pat = NoPat
    /\ changedFiles = {}

ChunksView ==
    /\ last.op = "none"
    /\ ViewFileOf({"w1"}, Paths, ViewOpts)

ChunksReplace ==
    /\ last.op = "none"
    /\ ReplaceLinesOf({"w1"}, {"/a"}, {T1("a"), T1("b")}, {<<>>, T1("a")},
                      0 .. MaxLine + 1, 2 * MaxLen + 2)

NextChunks == ChunksView \/ ChunksReplace

SpecChunks == InitChunks /\ [][NextChunks]_vars

---------------------------------------------------------------------------
(* Vocabulary of the properties *)

\* The number of lines of a text: one more than its newlines.
LineCount(text) == 1 + Cardinality({i \in 1 .. Len(text) : text[i] = NL})

\* The documents stored for a path of a widget.
StoredDocs(st, w, p) == SelectSeq(st[w], LAMBDA d : d.filePath = p)

\* The path has no document in the widget.
Absent(st, w, p) == Len(StoredDocs(st, w, p)) = 0

\* The payload that writes content c, whole, to path p of widget w.
WritePayload(w, p, c) ==
    [widgetId |-> w, files |-> [x \in {p} |-> c], deletedFiles |-> <<>>]

\* The last operation was a replaceLines call that fetched the widget's files and
\* found the path with a non-empty content.
ReplaceFound(l) ==
    /\ l.op = "replaceLines"
    /\ l.mongo = "ok"
    /\ l.args.filePath \in DOMAIN l.files
    /\ l.files[l.args.filePath] # <<>>

\* 1 <= firstLine <= lastLine <= totalLines
RangeOK(first, lastL, total) == 1 <= first /\ first <= lastL /\ lastL <= total

---------------------------------------------------------------------------
(* C1: when replaceLines passes validation and its write succeeds, the      *)
(* content stored for filePath (and the one entry of the payload sent) is   *)
(* original[0:firstLine-1] ++ replace.split('\n') ++ original[lastLine:]    *)
(* joined by newline: the lines before and after the range are unchanged    *)
(* and in order, the line count is total - (lastLine-firstLine+1) + the     *)
(* number of lines of replace, and an empty replace leaves one empty line.  *)
C1_SpliceStored ==
    (last.op = "replaceLines" /\ last.res.success) =>
        LET a == last.args
            f == a.firstReplacedLine
            l == a.lastReplacedLine
            original == last.files[a.filePath]
            orig == Split(original)
            total == Len(orig)
            expected == SubSeq(orig, 1, f - 1) \o Split(a.replace)
                            \o SubSeq(orig, l + 1, total)
            docs == StoredDocs(store, a.widgetId, a.filePath)
            now == Split(docs[1].content)
            shift == LineCount(a.replace) - (l - f + 1)
        IN  /\ RangeOK(f, l, total)
            /\ docs = <<[filePath |-> a.filePath, content |-> Join(expected)]>>
            /\ last.sent = <<WritePayload(a.widgetId, a.filePath, Join(expected))>>
            /\ now = expected
            /\ LineCount(docs[1].content) = LineCount(original) + shift
            /\ \A i \in 1 .. f - 1 : now[i] = orig[i]
            /\ \A i \in l + 1 .. total : now[i + shift] = orig[i]
            /\ a.replace = <<>> =>
                   /\ now[f] = <<>>
                   /\ Len(now) = total - (l - f + 1) + 1

\* A range of two lines with a line after it was replaced by the empty text.
C1_Witness ==
    /\ last.op = "replaceLines" /\ last.res.success
    /\ last.args.firstReplacedLine < last.args.lastReplacedLine
    /\ last.args.lastReplacedLine < LineCount(last.files[last.args.filePath])
    /\ last.args.replace = <<>>

---------------------------------------------------------------------------
(* C2: when the call reaches the pattern check (the file was found and the  *)
(* range is valid) and the pattern built from search does not match the     *)
(* joined lines firstLine..lastLine of the stored file, replaceLines        *)
(* returns success=false with the error 'Search pattern mismatch', sends    *)
(* nothing to the Lambda and leaves every stored document as it was.        *)
C2_MismatchNoWrite ==
    [][ LET l == last'
            a == l.args
            orig == Split(l.files[a.filePath])
            target == Join(SubSeq(orig, a.firstReplacedLine, a.lastReplacedLine))
        IN  ( /\ ReplaceFound(l)
              /\ RangeOK(a.firstReplacedLine, a.lastReplacedLine, Len(orig))
              /\ PatternCheck(a.search, target) = "mismatch" )
            => /\ l.res.success = FALSE
               /\ l.res.error = "Search pattern mismatch"
               /\ l.sent = <<>>
               /\ store' = store ]_vars

\* A call whose search text is absent from its one-line range of a longer file
\* was rejected with the mismatch error.
C2_Witness ==
    /\ ReplaceFound(last)
    /\ last.res.success = FALSE
    /\ last.res.error = "Search pattern mismatch"
    /\ last.args.firstReplacedLine = 2
    /\ last.args.search = T1("a")

---------------------------------------------------------------------------
(* C3: for a file that was found, replaceLines fails with 'Invalid line     *)
(* range' (success=false), sends nothing and leaves the store as it was     *)
(* whenever 1 <= firstLine <= lastLine <= totalLines does not hold, and     *)
(* never gives that error when it holds; totalLines is the line count of    *)
(* the fetched content.                                                     *)
C3_RangeCheck ==
    [][ LET l == last'
            a == l.args
            total == LineCount(l.files[a.filePath])
            rejected == l.res.success = FALSE /\ l.res.error = "Invalid line range"
        IN  ReplaceFound(l) =>
              IF RangeOK(a.firstReplacedLine, a.lastReplacedLine, total)
              THEN ~rejected
              ELSE rejected /\ l.sent = <<>> /\ store' = store ]_vars

\* A call with 1 <= firstLine <= lastLine but lastLine past the end was rejected.
C3_Witness ==
    /\ ReplaceFound(last)
    /\ last.res.success = FALSE
    /\ last.res.error = "Invalid line range"
    /\ 1 <= last.args.firstReplacedLine
    /\ last.args.firstReplacedLine <= last.args.lastReplacedLine
    /\ last.args.lastReplacedLine > LineCount(last.files[last.args.filePath])

---------------------------------------------------------------------------
(* The pattern of the specification: the search text taken literally, each  *)
(* ellipsis token standing for any content                                  *)

\* The literal pieces of a search text between its ellipsis tokens.
RECURSIVE SegmentsFrom(_, _, _)
SegmentsFrom(s, i, cur) ==
    IF i > Len(s) THEN <<cur>>
    ELSE IF i + 2 <= Len(s) /\ s[i] = "." /\ s[i + 1] = "." /\ s[i + 2] = "."
         THEN <<cur>> \o SegmentsFrom(s, i + 3, <<>>)
    ELSE SegmentsFrom(s, i + 1, Append(cur, s[i]))

LiteralSegments(search) == SegmentsFrom(search, 1, <<>>)

\* seg occurs in text at offset k (0-based).
OccursAt(seg, text, k) ==
    /\ k + Len(seg) <= Len(text)
    /\ \A i \in 1 .. Len(seg) : text[k + i] = seg[i]

\* The first piece occurs right at offset k and every later piece occurs, in
\* order, somewhere after the piece before it.
RECURSIVE ChainFrom(_, _, _)
ChainFrom(segs, text, k) ==
    /\ OccursAt(segs[1], text, k)
    /\ \/ Len(segs) = 1
       \/ \E j \in k + Len(segs[1]) .. Len(text) : ChainFrom(Tail(segs), text, j)

\* The literal pattern matches somewhere in the text.
LiteralMatch(search, text) ==
    \E k \in 0 .. Len(text) : ChainFrom(LiteralSegments(search), text, k)

\* text begins with pre and ends with suf, the two not overlapping.
Encloses(text, pre, suf) ==
    /\ Len(pre) + Len(suf) <= Len(text)
    /\ OccursAt(pre, text, 0)
    /\ OccursAt(suf, text, Len(text) - Len(suf))

(* C4: the search text is matched literally, its metacharacters escaped: a  *)
(* search text passes the pattern check against a range only if its literal *)
(* pieces (the text between its ellipsis tokens) occur in the range, in     *)
(* order.                                                                   *)
C4_LiteralMatching ==
    (pat.pc = "checked" /\ pat.outcome = "pass")
        => LiteralMatch(pat.search, pat.target)

(* C5: a search text prefix ++ '...' ++ suffix passes the pattern check     *)
(* against every range whose joined lines are prefix ++ anything ++ suffix. *)
C5_EllipsisValidates ==
    (/\ pat.pc = "checked"
     /\ Len(LiteralSegments(pat.search)) = 2
     /\ Encloses(pat.target, LiteralSegments(pat.search)[1], LiteralSegments(pat.search)[2]))
        => pat.outcome = "pass"

\* The content stored for path p of widget w, when one document holds it.
StoredContent(st, w, p) == StoredDocs(st, w, p)[1].content

\* The splice a call computes from the files it fetched.
SpliceOf(files, args) ==
    Join(newLines(Split(files[args.filePath]), args.firstReplacedLine,
                  args.lastReplacedLine, args.replace))

\* Caller c has finished a call that wrote and reported success.
Wrote(c) ==
    /\ call[c].pc = "done"
    /\ "newContent" \in DOMAIN call[c]
    /\ call[c].res.success

(* C6: no token or lock stands between the fetch and the write of a         *)
(* replaceLines call: whenever the write of a call succeeds, whatever the   *)
(* other call has stored since this call's fetch, the call reports success  *)
(* and the file stored is the splice computed from the content this call    *)
(* fetched; so of two calls that fetched the same content, the file stored  *)
(* in the end is the splice of the call whose write landed last.            *)
C6_LastWriteWins ==
    [][\A c \in Callers :
          (call[c].pc = "fetched" /\ call'[c].pc = "done" /\ last'.lam = "ok")
              => /\ call'[c].res.success
                 /\ "error" \notin DOMAIN call'[c].res
                 /\ Len(StoredDocs(store', "w1", "/a")) = 1
                 /\ StoredContent(store', "w1", "/a") = SpliceOf(call[c].files, call[c].args)]_vars

\* Both calls fetched the same content, both wrote and reported success, the
\* write of c2 landed last, and the edit of c1 is not in the file stored.
C6_Witness ==
    /\ Wrote("c1") /\ Wrote("c2")
    /\ call["c1"].files = call["c2"].files
    /\ last.caller = "c2"
    /\ StoredContent(store, "w1", "/a") = SpliceOf(call["c2"].files, call["c2"].args)
    /\ StoredContent(store, "w1", "/a") # call["c1"].newContent
    /\ call["c1"].newContent # call["c1"].files["/a"]
    /\ call["c1"].args.firstReplacedLine # call["c2"].args.firstReplacedLine

---------------------------------------------------------------------------
\* The operation just completed is op on path p of widget w.
JustDid(l, op, w, p) ==
    l.op = op /\ l.args.widgetId = w /\ l.args.filePath = p

(* C7: viewFile and replaceLines on a path that the widget does not hold    *)
(* (the fetch succeeds and its files have no such path) return the result   *)
(* success=false with the error 'File not found' and a message, instead of  *)
(* throwing; replaceLines sends nothing to the Lambda and the store is left *)
(* as it was.                                                               *)
C7_NotFound ==
    [][ LET l == last'
        IN  ( /\ l.op \in {"viewFile", "replaceLines"}
              /\ l.mongo = "ok"
              /\ \/ Absent(store, l.args.widgetId, l.args.filePath)
                 \/ l.args.filePath \notin DOMAIN l.files )
            => /\ l.args.filePath \notin DOMAIN l.files
               /\ l.res = NotFound(l.args.filePath)
               /\ l.res.success = FALSE
               /\ l.res.error = "File not found"
               /\ l.sent = <<>>
               /\ store' = store ]_vars

\* replaceLines was called on a path the widget does not hold, while the widget
\* holds another path and the other widget holds this one.
C7_Witness ==
    /\ JustDid(last, "replaceLines", "w1", "/a")
    /\ last.mongo = "ok"
    /\ Absent(store, "w1", "/a")
    /\ ~Absent(store, "w1", "/b")
    /\ ~Absent(store, "w2", "/a")
    /\ last.res.error = "File not found"

---------------------------------------------------------------------------
\* The numbered view of the first 500 lines of content c.
NumberedView(c) ==
    LET ls == Split(c)
        n == Min(ViewLimit, Len(ls))
    IN  Join([i \in 1 .. n |-> Digits(i) \o <<"|">> \o ls[i]])

(* C8: for every content c, the empty string included: when writeFile(w, p, *)
(* c) has reported success and the next operation is viewFile(w, p) whose   *)
(* fetch succeeds, the view succeeds and shows the numbered lines of c;     *)
(* when the next operation is replaceLines on (w, p), it fetches c and      *)
(* validates against it, so it does not answer 'File not found'.            *)
C8_ReadYourWrite ==
    [][ \A w \in Widgets, p \in Paths :
          ( /\ JustDid(last, "writeFile", w, p)
            /\ last.res.success
            /\ last'.op \in {"viewFile", "replaceLines"}
            /\ JustDid(last', last'.op, w, p)
            /\ last'.mongo = "ok" )
          => /\ p \in DOMAIN last'.files
             /\ last'.files[p] = last.args.content
             /\ (last'.op = "viewFile" /\ "lines" \notin DOMAIN last'.args) =>
                    /\ last'.res.success
                    /\ last'.res.content = NumberedView(last.args.content)
                    /\ last'.res.totalLines = LineCount(last.args.content)
             /\ last'.op = "replaceLines" =>
                    (last'.res.success \/ last'.res.error # "File not found") ]_vars

---------------------------------------------------------------------------
(* C9: after deleteFile(w, p) reports success the widget holds no document  *)
(* of p; a path the widget does not hold stays so until a write to that     *)
(* very path reaches the store; and viewFile(w, p), its fetch succeeding,   *)
(* answers 'File not found' for a path the widget does not hold, so also    *)
(* when it follows the delete directly.                                     *)
C9_DeletedThenNotFound ==
    [][ \A w \in Widgets, p \in Paths :
          /\ (JustDid(last', "deleteFile", w, p) /\ last'.res.success)
                 => Absent(store', w, p)
          /\ (Absent(store, w, p) /\ ~Absent(store', w, p))
                 => /\ JustDid(last', "writeFile", w, p)
                    /\ last'.res.success
          /\ (JustDid(last', "viewFile", w, p) /\ last'.mongo = "ok" /\ Absent(store, w, p))
                 => last'.res = NotFound(p)
          /\ ( /\ JustDid(last, "deleteFile", w, p) /\ last.res.success
               /\ JustDid(last', "viewFile", w, p) /\ last'.mongo = "ok" )
                 => (last'.res.success = FALSE /\ last'.res.error = "File not found") ]_vars

\* deleteFile has just reported success on a path of a widget that holds
\* another file: the path is gone, and a viewFile of it can follow.
C9_Witness ==
    /\ JustDid(last, "deleteFile", "w2", "/b")
    /\ last.res.success
    /\ last.args.removeFromIndex
    /\ Absent(store, "w2", "/b")
    /\ ~Absent(store, "w2", "/a")

---------------------------------------------------------------------------
\* The payload that deletes path p of widget w.
DeletePayload(w, p) ==
    [widgetId |-> w, files |-> NoFiles, deletedFiles |-> <<p>>]

\* Every document but those of path p of widget w is as it was.
OthersUnchanged(w, p) ==
    \A w2 \in Widgets, p2 \in Paths :
        <<w2, p2>> # <<w, p>> => StoredDocs(store', w2, p2) = StoredDocs(store, w2, p2)

(* C10: writeFile sends the Lambda one payload whose files are the one      *)
(* entry {filePath: content} and whose deletion list is empty; deleteFile   *)
(* sends one payload with no files and the deletion list [filePath]         *)
(* (nothing is sent only when the AWS credentials are missing).  After      *)
(* either operation the documents of every other path of the widget and of  *)
(* every other widget are as they were, and after a successful write the    *)
(* path holds one document whose content is exactly the content written.    *)
C10_PayloadAndFrame ==
    [][ LET l == last'
            a == l.args
        IN  /\ l.op = "writeFile" =>
                /\ l.sent = IF l.lam = "nocreds" THEN <<>>
                            ELSE <<WritePayload(a.widgetId, a.filePath, a.content)>>
                /\ OthersUnchanged(a.widgetId, a.filePath)
                /\ l.res.success =>
                       StoredDocs(store', a.widgetId, a.filePath)
                           = <<[filePath |-> a.filePath, content |-> a.content]>>
                /\ ~l.res.success => store' = store
            /\ l.op = "deleteFile" =>
                /\ l.sent = IF l.lam = "nocreds" THEN <<>>
                            ELSE <<DeletePayload(a.widgetId, a.filePath)>>
                /\ OthersUnchanged(a.widgetId, a.filePath)
                /\ ~l.res.success => store' = store ]_vars

\* A file was deleted while its widget holds another path and the other widget
\* holds the same path.
C10_Witness ==
    /\ JustDid(last, "deleteFile", "w1", "/a")
    /\ last.res.success
    /\ last.sent = <<DeletePayload("w1", "/a")>>
    /\ Absent(store, "w1", "/a")
    /\ ~Absent(store, "w1", "/b")
    /\ ~Absent(store, "w2", "/a")
    /\ StoredContent(store, "w2", "/a") # <<>>

---------------------------------------------------------------------------
\* The handlers of the file manager.
FileOps == {"writeFile", "viewFile", "deleteFile", "searchFiles", "replaceLines"}

(* C11: every call of writeFile, viewFile, deleteFile, searchFiles and      *)
(* replaceLines that returns gives a result with a boolean success: when    *)
(* the MongoDB fetch or the Lambda call it made failed (missing             *)
(* configuration or credentials, a driver error, a non-200 status, a        *)
(* function error) the result has success=false; every result with          *)
(* success=false carries a non-empty error string and no result with        *)
(* success=true carries one; replaceLines reports success only when its     *)
(* write reached the Lambda and the Lambda call succeeded.                  *)
C11_StructuredResults ==
    last.op \in FileOps =>
        /\ last.res.success \in BOOLEAN
        /\ (last.mongo \in {"nouri", "dberror"} \/ last.lam \in {"nocreds", "status", "fnerror"})
               => ~last.res.success
        /\ ~last.res.success
               => ("error" \in DOMAIN last.res /\ last.res.error # "")
        /\ last.res.success => "error" \notin DOMAIN last.res
        /\ (last.op = "replaceLines" /\ last.res.success)
               => /\ last.lam = "ok"
                  /\ Len(last.sent) = 1
                  /\ last.sent[1].deletedFiles = <<>>

\* replaceLines passed its checks and its write met a Lambda function error:
\* the call returned the failure.
C11_Witness ==
    /\ last.op = "replaceLines"
    /\ last.mongo = "ok"
    /\ last.lam = "fnerror"
    /\ last.res.success = FALSE
    /\ last.res.error = "Lambda function error"
    /\ Len(last.sent) = 1


---------------------------------------------------------------------------
(* C12: the hybrid search keeps its failures inside the controller           *)

\* C12: no call of the controller's search ends by throwing: whatever fails
\* inside it is turned into a returned value before it reaches the tool layer.
C12_NoThrowFromController ==
    last.op = "search" => ~last.res.threw

---------------------------------------------------------------------------
(* C13: a failed semantic search is reported as a failure                    *)

\* A semantic search whose database is reachable but whose embedding request or
\* aggregation failed.
SemanticFailed ==
    /\ last.op = "search"
    /\ last.args.searchType = "semantic"
    /\ last.env.mongo = "ok"
    /\ last.env.embed = "fail" \/ last.env.vector = "fail"

\* C13: when the embedding request or the vector aggregation fails, the search
\* ends as a failure and never as a returned, empty list of results.
C13_FailureSurfaced ==
    SemanticFailed => last.res.threw /\ last.tool.isError

---------------------------------------------------------------------------
(* C14: the ranges parsed from a lines argument                              *)

\* A number as written: one digit or more and nothing else.
IsNumber(s) == Len(s) > 0 /\ \A i \in 1 .. Len(s) : s[i] \in DigitChars
NumberOf(s) == DigitsFrom(s, 1, 0, 0).n

\* The range a token stands for, if any: a bare number n stands for {n,n}, a-b
\* with two numbers and a <= b for {a,b}; every other token is dropped.
TokenRange(token) ==
    LET pieces == SplitBy(token, "-")
    IN  IF IsNumber(token)
        THEN <<[start |-> NumberOf(token), end |-> NumberOf(token)]>>
        ELSE IF /\ Len(pieces) = 2
                /\ IsNumber(Trim(pieces[1]))
                /\ IsNumber(Trim(pieces[2]))
                /\ NumberOf(Trim(pieces[1])) <= NumberOf(Trim(pieces[2]))
        THEN <<[start |-> NumberOf(Trim(pieces[1])),
                end |-> NumberOf(Trim(pieces[2]))]>>
        ELSE <<>>

RECURSIVE TokenRanges(_)
TokenRanges(tokens) ==
    IF Len(tokens) = 0 THEN <<>>
    ELSE TokenRange(Trim(tokens[1])) \o TokenRanges(Tail(tokens))

\* C14: parseLineRanges returns, in the order of the comma-separated tokens,
\* the range of every well-formed token and nothing for the others: a token
\* that is not a number, and not a-b with two numbers and a <= b, is dropped.
C14_RangesOfWellFormedTokens ==
    last.op = "parseLineRanges"
        => last.res = TokenRanges(SplitBy(last.args.lines, ","))

---------------------------------------------------------------------------
(* C15: the data-model invariant of the parsed ranges                        *)

\* The lines argument is made of digits, '-' and ',' only.
PlainRanges(lines) ==
    \A i \in 1 .. Len(lines) : lines[i] \in DigitChars \cup {"-", ","}

\* C15: for a lines argument of comma-separated tokens built from non-negative
\* integers and '-', every range returned satisfies 1 <= start <= end.
C15_RangeInvariant ==
    last.op = "parseLineRanges" /\ PlainRanges(last.args.lines)
        => \A i \in 1 .. Len(last.res) :
               1 <= last.res[i].start /\ last.res[i].start <= last.res[i].end

---------------------------------------------------------------------------
(* C16: the lines extracted for a list of ranges                             *)

\* The lines lo..hi of ls, each as '<number>|<text>'.
NumberedLines(ls, lo, hi) ==
    IF hi < lo THEN <<>>
    ELSE [k \in 1 .. hi - lo + 1 |->
             Digits(lo + k - 1) \o <<"|">> \o ls[lo + k - 1]]

RECURSIVE EmittedFor(_, _)
EmittedFor(ls, ranges) ==
    IF Len(ranges) = 0 THEN <<>>
    ELSE NumberedLines(ls, Max(1, ranges[1].start), Min(ranges[1].end, Len(ls)))
             \o EmittedFor(ls, Tail(ranges))

\* C16: extractLines emits, range after range in list order, the lines
\* max(1,start)..min(end,totalLines) as '<line number>|<text>', joined by
\* newlines: nothing is merged or dropped as a duplicate, and a range past the
\* end of the file adds nothing.
C16_ExtractedLines ==
    last.op = "extractLines"
        => last.res = Join(EmittedFor(Split(last.args.content), last.args.ranges))

\* Lines 1-2 then 2-4 of a file of two lines: line 2 comes twice.
C16_Witness ==
    /\ last.op = "extractLines"
    /\ last.args.content = T3("a", NL, "a")
    /\ last.args.ranges = <<[start |-> 1, end |-> 2], [start |-> 2, end |-> 4]>>
    /\ last.res = <<"1", "|", "a", NL, "2", "|", "a", NL, "2", "|", "a">>

---------------------------------------------------------------------------
(* C17: the default view, the line count and the lines-shown descriptor     *)

\* A view that found its file.
Viewed ==
    /\ last.op = "viewFile"
    /\ last.res.success

\* The lines argument of the view, <<>> when it was left out or empty.
LinesArg == IF "lines" \in DOMAIN last.args THEN last.args.lines ELSE <<>>

ViewedLines == Split(last.files[last.args.filePath])

\* C17: a view without a lines argument shows lines 1..min(500, totalLines) of
\* the file, numbered from 1, and its linesShown is '1-N' when that is the whole
\* file and '1-500 (truncated)' when the file is longer; a view with a lines
\* argument has that argument as its linesShown; totalLines is the line count
\* of the file in both cases.
C17_DefaultView ==
    Viewed =>
        /\ last.res.totalLines = LineCount(last.files[last.args.filePath])
        /\ LinesArg # <<>> => last.res.linesShown = LinesArg
        /\ LinesArg = <<>> =>
               /\ last.res.content =
                      Join([i \in 1 .. Min(500, Len(ViewedLines)) |->
                               Digits(i) \o <<"|">> \o ViewedLines[i]])
               /\ last.res.linesShown =
                      IF Len(ViewedLines) <= 500
                      THEN <<"1", "-">> \o Digits(Len(ViewedLines))
                      ELSE <<"1", "-", "5", "0", "0", " (truncated)">>

\* The default view of a file of 501 lines: 500 lines shown, 501 counted.
C17_Witness ==
    /\ Viewed
    /\ "lines" \notin DOMAIN last.args
    /\ last.res.totalLines = 501
    /\ Len(Split(last.res.content)) = 500
    /\ last.res.linesShown = <<"1", "-", "5", "0", "0", " (truncated)">>

---------------------------------------------------------------------------
(* C18: one record for every match of a line                                 *)

\* A search that returned its matches.
Searched ==
    /\ last.op = "searchFiles"
    /\ last.res.success

\* A query without metacharacter: it matches its own text, whatever the case.
Literal(query) ==
    /\ Len(query) > 0
    /\ \A i \in 1 .. Len(query) : query[i] \in {"a", "A", "b", " ", "/"}

\* The query occurs in text at index p (counted from 1).
OccursIn(query, text, p) ==
    /\ p + Len(query) - 1 <= Len(text)
    /\ \A k \in 1 .. Len(query) : Fold(text[p + k - 1]) = Fold(query[k])

Occurs(query, text) == \E p \in 1 .. Len(text) : OccursIn(query, text, p)

\* The non-overlapping occurrences of query in text from index p on, left to
\* right: where each starts.
RECURSIVE OccurrencesFrom(_, _, _)
OccurrencesFrom(query, text, p) ==
    IF p > Len(text) THEN <<>>
    ELSE IF OccursIn(query, text, p)
    THEN <<p>> \o OccurrencesFrom(query, text, p + Len(query))
    ELSE OccurrencesFrom(query, text, p + 1)

\* The place and text of the records expected for line i of a file.
LineRecords(query, filePath, ls, i) ==
    LET occ == OccurrencesFrom(query, ls[i], 1)
    IN  [k \in 1 .. Len(occ) |->
            [filePath |-> filePath, line |-> i, column |-> occ[k],
             matchText |-> SubSeq(ls[i], occ[k], occ[k] + Len(query) - 1)]]

RECURSIVE FileRecords(_, _, _, _)
FileRecords(query, filePath, ls, i) ==
    IF i > Len(ls) THEN <<>>
    ELSE LineRecords(query, filePath, ls, i) \o FileRecords(query, filePath, ls, i + 1)

RECURSIVE DocsRecords(_, _)
DocsRecords(query, docs) ==
    IF Len(docs) = 0 THEN <<>>
    ELSE FileRecords(query, docs[1].filePath, Split(docs[1].content), 1)
             \o DocsRecords(query, Tail(docs))

\* The files a search scans: those whose content holds the query or, when
\* includePattern has a '*', those whose path does.
ScannedDocs ==
    SelectSeq(store[last.args.widgetId],
              LAMBDA d : Occurs(last.args.query,
                                IF IncludesStar(last.args.includePattern)
                                THEN PathText(d.filePath) ELSE d.content))

\* Where a record says its match is, and its text.
PlaceOf(m) ==
    [filePath |-> m.filePath, line |-> m.line, column |-> m.column,
     matchText |-> m.matchText]

\* The lines of the stored file of path p.
LinesOfFile(p) ==
    Split((CHOOSE d \in {store[last.args.widgetId][k] :
                             k \in 1 .. Len(store[last.args.widgetId])} :
               d.filePath = p).content)

\* C18: a search records one match for every non-overlapping left-to-right
\* match on every line of every file it scans, with the line and column counted
\* from 1 and the text matched: for a literal query the records are exactly
\* those occurrences, file after file and line after line; for every query the
\* text of a record is what the line holds at its column, and the records of one
\* line follow each other with strictly increasing columns, none overlapping
\* the one before.
C18_MatchPerOccurrence ==
    Searched =>
        /\ Literal(last.args.query) =>
               [k \in 1 .. Len(last.res.matches) |-> PlaceOf(last.res.matches[k])]
                   = DocsRecords(last.args.query, ScannedDocs)
        /\ \A k \in 1 .. Len(last.res.matches) :
               LET m == last.res.matches[k]
                   ls == LinesOfFile(m.filePath)
               IN  /\ m.line \in 1 .. Len(ls)
                   /\ m.column >= 1
                   /\ m.matchText = SubSeq(ls[m.line], m.column,
                                           m.column + Len(m.matchText) - 1)
        /\ \A k \in 1 .. Len(last.res.matches) - 1 :
               LET m == last.res.matches[k]
                   n == last.res.matches[k + 1]
               IN  m.filePath = n.filePath /\ m.line = n.line
                       => n.column >= m.column + Len(m.matchText)

\* 'aa' over the one line 'aa bb aa': two records, columns 1 and 7.
C18_Witness ==
    /\ Searched
    /\ last.args.query = <<"a", "a">>
    /\ store["w1"] = <<[filePath |-> "/a",
                        content |-> <<"a", "a", " ", "b", "b", " ", "a", "a">>]>>
    /\ Len(last.res.matches) = 2
    /\ last.res.matches[1].column = 1
    /\ last.res.matches[2].column = 7
    /\ last.res.matches[1].line = 1
    /\ last.res.matches[2].matchText = <<"a", "a">>

---------------------------------------------------------------------------
(* C19: the context kept around a match                                      *)

\* C19: the beforeContext of a match at line i is the min(N, i-1) lines just
\* before line i and its afterContext the min(N, lines after i) lines just after
\* it, N being the contextLines argument of the search.
C19_ContextWidth ==
    Searched =>
        \A k \in 1 .. Len(last.res.matches) :
            LET m == last.res.matches[k]
                ls == LinesOfFile(m.filePath)
                N == last.args.contextLines
            IN  /\ m.beforeContext
                       = SubSeq(ls, m.line - Min(N, m.line - 1), m.line - 1)
                /\ m.afterContext
                       = SubSeq(ls, m.line + 1, m.line + Min(N, Len(ls) - m.line))

---------------------------------------------------------------------------
(* C20: the files a search is restricted to                                  *)

\* The glob pattern from index i on matches the path from index j on: '*'
\* stands for any run of characters, every other character for itself.
RECURSIVE GlobFrom(_, _, _, _)
GlobFrom(pattern, i, path, j) ==
    IF i > Len(pattern) THEN j > Len(path)
    ELSE IF pattern[i] = "*"
    THEN \E k \in j .. Len(path) + 1 : GlobFrom(pattern, i + 1, path, k)
    ELSE /\ j <= Len(path)
         /\ pattern[i] = path[j]
         /\ GlobFrom(pattern, i + 1, path, j + 1)

GlobMatch(pattern, filePath) == GlobFrom(pattern, 1, PathText(filePath), 1)

\* The path is one the search is restricted to.
Included(filePath) ==
    /\ GlobMatch(last.args.includePattern, filePath)
    /\ "excludePattern" \in DOMAIN last.args
           => ~GlobMatch(last.args.excludePattern, filePath)

\* C20: a search returns matches only from the files whose path matches
\* includePattern and does not match excludePattern, and it returns the matches
\* of every such file: for a literal query, the occurrences of the query in
\* those files.
C20_GlobRestriction ==
    Searched =>
        /\ \A k \in 1 .. Len(last.res.matches) :
               Included(last.res.matches[k].filePath)
        /\ Literal(last.args.query) =>
               [k \in 1 .. Len(last.res.matches) |-> PlaceOf(last.res.matches[k])]
                   = DocsRecords(last.args.query,
                                 SelectSeq(store[last.args.widgetId],
                                           LAMBDA d : Included(d.filePath)))

---------------------------------------------------------------------------
(* C21: the caseSensitive flag                                               *)

\* The text is the query up to the case of its letters.
SameModuloCase(text, query) ==
    /\ Len(text) = Len(query)
    /\ \A k \in 1 .. Len(query) : Fold(text[k]) = Fold(query[k])

\* C21: for a literal query, a search with caseSensitive = true reports a match
\* only where the text is the query in the same letter case; with caseSensitive
\* = false the text matched is the query up to case.
C21_CaseHonoured ==
    Searched /\ Literal(last.args.query) =>
        \A k \in 1 .. Len(last.res.matches) :
            IF last.args.caseSensitive
            THEN last.res.matches[k].matchText = last.args.query
            ELSE SameModuloCase(last.res.matches[k].matchText, last.args.query)

---------------------------------------------------------------------------
(* C22: the exact and filename searches of the hybrid search                 *)

\* A hybrid search of the given type that returned its results.
HybridReturned(searchType) ==
    /\ last.op = "search"
    /\ last.args.searchType = searchType
    /\ ~last.res.threw

\* The documents of the requested widget, in storage order, whose path (for a
\* filename search) or content (for an exact one) holds the query, case ignored.
HoldingQuery ==
    SelectSeq(store[last.args.widgetId],
              LAMBDA d : Occurs(last.args.query,
                                IF last.args.searchType = "filename"
                                THEN PathText(d.filePath) ELSE d.content))

---------------------------------------------------------------------------
(* C23: what a semantic search returns                                       *)

\* C23: every result of a semantic search scores at least 0.4, is tagged
\* 'semantic' and has the path, score and granularity of a document the index
\* holds for the requested widget; there are at most limit results.
C23_SemanticResults ==
    HybridReturned("semantic") =>
        /\ Len(last.res.results) <= last.args.limit
        /\ \A i \in 1 .. Len(last.res.results) :
               LET r == last.res.results[i]
               IN  /\ r.score >= 40
                   /\ r.matchType = "semantic"
                   /\ \E k \in 1 .. Len(last.env.hits) :
                          /\ last.env.hits[k].widgetId = last.args.widgetId
                          /\ last.env.hits[k].filePath = r.filePath
                          /\ last.env.hits[k].score = r.score
                          /\ last.env.hits[k].granularity = r.granularity

\* A semantic search with limit 2 over an index holding another widget's
\* document and documents of the widget scoring 0.9, 0.4 and 0.3: two results.
C23_Witness ==
    /\ HybridReturned("semantic")
    /\ last.args.widgetId = "w1"
    /\ last.args.limit = 2
    /\ Len(last.env.hits) = 4
    /\ last.env.hits[1].widgetId = "w2"
    /\ last.env.hits[4].score = 30
    /\ Len(last.res.results) = 2
    /\ last.res.results[2].score = 40
    /\ last.res.results[2].granularity = "function"

---------------------------------------------------------------------------
(* C27: the score filter and the cap of a semantic search                    *)

\* The code documents of the requested widget scoring at least 0.4, best first.
Eligible ==
    SelectSeq(last.env.hits,
              LAMBDA h : /\ h.widgetId = last.args.widgetId
                         /\ h.type = "code"
                         /\ h.score >= 40)

\* C27: a semantic search whose embedding request and aggregation succeed
\* returns the min(limit, k) best of the k code documents of the widget that
\* score at least 0.4, in descending order of score.
C27_FilterBeforeCap ==
    HybridReturned("semantic") /\ last.env.embed = "ok" /\ last.env.vector = "ok"
        => [i \in 1 .. Len(last.res.results) |->
               [filePath |-> last.res.results[i].filePath,
                score |-> last.res.results[i].score]]
           = [i \in 1 .. Min(last.args.limit, Len(Eligible)) |->
                 [filePath |-> Eligible[i].filePath, score |-> Eligible[i].score]]

---------------------------------------------------------------------------
(* C24: the connections an operation opens are released before it returns   *)

---------------------------------------------------------------------------
(* C25: the outbound calls are time-bounded                                  *)

\* C25: a writeFile, deleteFile, replaceLines or semantic search that awaits
\* the remote side eventually returns, whether or not the remote side answers.
C25_EventuallyReturns ==
    \A c \in Callers :
        (call[c].pc = "awaiting" /\ call[c].op \in AwaitingOps)
            ~> (call[c].pc = "idle")

---------------------------------------------------------------------------
(* The CodeChecker's verdict on CSS files *)

Checked == last.op = "checkChangedFiles"

\* The braces opened and not yet closed after the first n characters.
BraceDepth(text, n) ==
    CountOf(SubSeq(text, 1, n), "{") - CountOf(SubSeq(text, 1, n), "}")

\* Every closing brace closes an earlier opening one and none stays open.
Balanced(text) ==
    /\ \A n \in 0 .. Len(text) : BraceDepth(text, n) >= 0
    /\ BraceDepth(text, Len(text)) = 0

\* Neither of the other defects checkCSS looks for.
NoOtherDefect(text) == ~Includes(text, <<":", ":">>) /\ ~Includes(text, <<"<">>)

\* The errors of the last check that name the file.
ErrorsAbout(filePath) ==
    SelectSeq(last.res.errors, LAMBDA e : e.file = filePath)

CheckedCss(e) == e.filePath \in changedFiles /\ extname(e.filePath) = ".css"

\* C26: when the file system works, a registered .css file with unbalanced
\* braces makes checkChangedFiles fail with at least one error about it; a
\* registered .css file with balanced braces and no other defect gets no error,
\* and alone it makes the check succeed with no error at all; a file that is not
\* registered, or whose extension is none of .ts, .tsx, .css and .json, gets no
\* error.
C26_CssBraces ==
    (Checked /\ last.io = "ok") =>
        \A i \in 1 .. Len(last.files) :
            /\ (CheckedCss(last.files[i]) /\ ~Balanced(last.files[i].content))
                   => /\ ~last.res.success
                      /\ ErrorsAbout(last.files[i].filePath) # <<>>
            /\ (/\ CheckedCss(last.files[i])
                /\ Balanced(last.files[i].content)
                /\ NoOtherDefect(last.files[i].content))
                   => /\ ErrorsAbout(last.files[i].filePath) = <<>>
                      /\ Len(last.files) = 1
                             => last.res = [success |-> TRUE, errors |-> <<>>]
            /\ (\/ last.files[i].filePath \notin changedFiles
                \/ extname(last.files[i].filePath) \notin supportedExtensions)
                   => ErrorsAbout(last.files[i].filePath) = <<>>

\* What holds of the brace check: it compares the number of opening braces
\* with the number of closing ones.
BraceCountChecked ==
    (Checked /\ last.io = "ok") =>
        \A i \in 1 .. Len(last.files) :
            CheckedCss(last.files[i]) =>
                ((openBracesOf(last.files[i].content) # 0)
                     <=> \E k \in 1 .. Len(last.res.errors) :
                             last.res.errors[k].rule = "css-braces")

---------------------------------------------------------------------------
(* Termination of searchFiles *)

\* C28: searchFiles returns for every query and every content: no call ends in
\* the match loop of a line going round for ever on an empty match.
C28_SearchTerminates == ~(last.op = "hung" /\ last.of = "searchFiles")

---------------------------------------------------------------------------
(* The pattern check of replaceLines and the range *)

\* The pattern matches the whole of the text u.
MatchesWhole(re, u) == Len(u) \in EndsSeq(re.nodes, u, {0})

\* The pattern is a regular expression and matches some substring of the text.
MatchesWithin(re, text) ==
    /\ ~re.err
    /\ \E i \in 0 .. Len(text) : \E j \in i .. Len(text) :
           MatchesWhole(re, SubSeq(text, i + 1, j))

\* The call got past the pattern check: it went on to its write.
PatternPassed(l) == l.lam # "none"

\* C29: for a file that was found and a valid range, replaceLines gets past the
\* pattern check exactly when the pattern built from search matches some
\* substring of the lines firstLine..lastLine joined by newline, whatever the
\* lines outside the range hold, and fails with 'Search pattern mismatch' when
\* the pattern is a regular expression that matches none; the content a call
\* that passed sends to be written is the lines before the range, the lines of
\* replace and the lines after the range: no part of the range is kept.
C29_UnanchoredInRange ==
    (ReplaceFound(last)
        /\ RangeOK(last.args.firstReplacedLine, last.args.lastReplacedLine,
                   LineCount(last.files[last.args.filePath]))) =>
        LET a == last.args
            orig == Split(last.files[a.filePath])
            range == SubSeq(orig, a.firstReplacedLine, a.lastReplacedLine)
            re == RegExpOf(searchPattern(a.search))
            spliced == SubSeq(orig, 1, a.firstReplacedLine - 1) \o Split(a.replace)
                           \o SubSeq(orig, a.lastReplacedLine + 1, Len(orig))
        IN  /\ PatternPassed(last) <=> MatchesWithin(re, Join(range))
            /\ (~re.err /\ ~MatchesWithin(re, Join(range)))
                   => last.res.error = "Search pattern mismatch"
            /\ (PatternPassed(last) /\ last.sent # <<>>)
                   => last.sent = <<WritePayload(a.widgetId, a.filePath, Join(spliced))>>

\* A call whose search text 'a' occurs in its range past the first character,
\* in a file that has a line outside the range, replaced the range.
C29_Witness ==
    /\ ReplaceFound(last) /\ last.res.success
    /\ last.args.search = T1("a")
    /\ last.args.firstReplacedLine = 1 /\ last.args.lastReplacedLine = 1
    /\ LineCount(last.files[last.args.filePath]) > 1
    /\ Split(last.files[last.args.filePath])[1] = T2("b", "a")

---------------------------------------------------------------------------
(* A file held in several documents *)

\* The contents of the documents joined by newline, in their order.
RECURSIVE ChunksJoined(_)
ChunksJoined(docs) ==
    IF Len(docs) = 1 THEN docs[1].content
    ELSE docs[1].content \o <<NL>> \o ChunksJoined(Tail(docs))

\* What C30 asks of a call l that finds the documents docs of its file: file is
\* their contents joined by newline.
OnJoined(l, file) ==
    /\ l.op = "viewFile" =>
           /\ l.res.success
           /\ l.res.totalLines = LineCount(file)
           /\ "lines" \notin DOMAIN l.args =>
                  l.res.content =
                      Join([i \in 1 .. Len(Split(file)) |->
                               Digits(i) \o <<"|">> \o Split(file)[i]])
    /\ l.op = "replaceLines" =>
           /\ (l.res.success = FALSE /\ l.res.error = "Invalid line range")
                  <=> ~RangeOK(l.args.firstReplacedLine, l.args.lastReplacedLine,
                               LineCount(file))
           /\ l.sent # <<>> =>
                  l.sent = <<WritePayload(l.args.widgetId, l.args.filePath,
                                 Join(SubSeq(Split(file), 1, l.args.firstReplacedLine - 1)
                                      \o Split(l.args.replace)
                                      \o SubSeq(Split(file), l.args.lastReplacedLine + 1,
                                                Len(Split(file)))))>>

\* C30: when the index holds several documents of the file for the widget and
\* the fetch is served, viewFile shows and counts, and replaceLines validates
\* its range against and splices, the documents' contents joined by newline in
\* retrieval order; the payload a replaceLines call sends holds the spliced
\* concatenation as the file's content.
C30_ChunksJoined ==
    [][ (/\ last'.op \in {"viewFile", "replaceLines"}
         /\ last'.mongo = "ok"
         /\ Len(StoredDocs(store, last'.args.widgetId, last'.args.filePath)) > 1)
        => OnJoined(last', ChunksJoined(StoredDocs(store, last'.args.widgetId,
                                                   last'.args.filePath))) ]_vars

\* What holds: the same when the first document of the file is not empty.
ChunksJoinedAfterContent ==
    [][ (/\ last'.op \in {"viewFile", "replaceLines"}
         /\ last'.mongo = "ok"
         /\ Len(StoredDocs(store, last'.args.widgetId, last'.args.filePath)) > 1
         /\ StoredDocs(store, last'.args.widgetId, last'.args.filePath)[1].content # <<>>)
        => OnJoined(last', ChunksJoined(StoredDocs(store, last'.args.widgetId,
                                                   last'.args.filePath))) ]_vars

=============================================================================
